---- MODULE Spec2Model ----
(***************************************************************************)
(* gb-show: rate-limited, cached API client (src/api/calls/call.ts), the   *)
(* response cache with its debounced flush (src/api/cache), the catalog    *)
(* builder (src/commands/utils/catalog) and the anchor/range compositor    *)
(* (src/commands/processors/download.ts, subprocessors/anchor.ts).         *)
(*                                                                         *)
(* Time is counted in units of 500 ms, the poll interval of the busy wait. *)
(***************************************************************************)
EXTENDS Integers, Sequences, FiniteSets, TLC

VARIABLES
  now,        \* Date.now()
  last_call,  \* call.ts: let last_call
  calling,    \* call.ts: let calling
  req,        \* one record per concurrent rateLimitGet invocation
  issued,     \* number of rateLimitGet invocations so far
  lastStart,  \* when the latest httpieGet call started, -1 before the first
  minGap,     \* smallest distance seen between successive httpieGet starts
  data,       \* Cache.data
  flushOpts,  \* cache module: flushOpts[filename], <<>> while undefined
  timers,     \* pending wait(cache_flush_ms) continuations of flushData
  writes,     \* io.write calls in progress on the cache file
  disk,       \* the cache file: <<>> while missing, else <<document>>
  writeLog,   \* history of the documents handed to io.writeJson
  puts,       \* number of Cache.put calls so far
  firstPut,   \* when the first Cache.put ran, -1 before it
  rapid,      \* every put so far ran before the first put's flush delay was over
  lastPut,    \* per key, the response and the time of the latest Cache.put
  flushed,    \* position of run()'s `await apiCache.flush()`
  videos,     \* what api.video.all returns for the show, in server order
  copy_year,  \* context.copy_year
  catalog,    \* targetCatalog: <<>> until catalog.create has run
  anchorCommands,  \* the anchor commands of the command line, as parsed
  anchors,    \* download.process: anchors
  includedIDs, \* download.process: <<>> until computed, else <<the set>>
  options,    \* download.process: the options before the first anchor word
  failed,     \* download.process: TRUE once it threw
  remote,     \* the list resource of the remote API: its items and page limit
  autopage,   \* the locals of one autopageList call, and the requests it made
  save        \* one downloadUrl call: its options, its position, the files

apiVars   == <<last_call, calling, req, issued, lastStart, minGap>>
cacheVars == <<data, flushOpts, timers, puts, firstPut, rapid, lastPut>>
diskVars  == <<writes, disk, writeLog, flushed>>
dlVars    == <<options, failed>>
catVars   == <<videos, copy_year, catalog, anchorCommands, anchors, includedIDs, dlVars>>
pageVars  == <<remote, autopage>>
vars      == <<now, apiVars, cacheVars, diskVars, catVars, pageVars, save>>

----------------------------------------------------------------------------
(* Configuration.  The unit of time is 500 ms. *)

\* call.ts:79  await wait(500)
poll_ms == 1
\* shared.ts  rate_limit_ms: 1000
rate_limit_ms == 2
\* CacheOpts.cache_duration_ms, in units (the default of 4 hours is 28800)
cache_duration_ms == 3
\* CacheOpts.cache_flush_ms, in units (the default of 5 s is 10)
cache_flush_ms == 2

\* the clock runs from StartTime up to StartTime + MaxElapsed
MaxElapsed == 3
\* concurrent rateLimitGet invocations, and invocations in total
NumReq == 2
MaxIssued == 4

\* Date.now() at start-up is far beyond last_call = 0 plus the rate limit
StartTime == rate_limit_ms + cache_duration_ms
MaxTime == StartTime + MaxElapsed

Reqs == 1..NumReq
\* request paths with their normalised filter parameters
Bases == {"video", "show"}
api_key == "KEY"

----------------------------------------------------------------------------
(* call.ts: toURL *)

toURL(base, key) ==
  [ full |-> IF key # "" THEN <<base, key>> ELSE <<base>>,
    safe |-> <<base>>,
    base |-> base ]

SafeKeys == { toURL(b, api_key).safe : b \in Bases }

----------------------------------------------------------------------------
(* Response cache: src/api/cache *)

EmptyData == [ calls |-> <<>>, responses |-> <<>> ]

\* Array.prototype.findIndex over the set of matching positions, 1-based;
\* 0 when nothing matches
findIndex(S) == IF S = {} THEN 0 ELSE CHOOSE i \in S : \A j \in S : i <= j

Restrict(f, S) == [ x \in S |-> f[x] ]

\* evictData with call.date > keepFrom as its test
evictDataStrict(d, t) ==
  LET keepFrom == t - cache_duration_ms
      keepFromIndex ==
        findIndex({ i \in DOMAIN d.calls : d.calls[i].date > keepFrom })
  IN  IF keepFromIndex # 1 /\ Len(d.calls) # 0
      THEN IF keepFromIndex = 0
           THEN EmptyData
           ELSE [ calls |-> SubSeq(d.calls, keepFromIndex, Len(d.calls)),
                  responses |-> Restrict(d.responses,
                     DOMAIN d.responses
                       \ { d.calls[i].path : i \in 1..(keepFromIndex - 1) }) ]
      ELSE d

\* evictData: returns the cache data after eviction at time t
evictData(d, t) ==
  LET keepFrom == t - cache_duration_ms
      keepFromIndex ==
        findIndex({ i \in DOMAIN d.calls : d.calls[i].date >= keepFrom })
  IN  IF keepFromIndex # 1 /\ Len(d.calls) # 0
      THEN IF keepFromIndex = 0
           THEN EmptyData
           ELSE [ calls |-> SubSeq(d.calls, keepFromIndex, Len(d.calls)),
                  responses |-> Restrict(d.responses,
                     DOMAIN d.responses
                       \ { d.calls[i].path : i \in 1..(keepFromIndex - 1) }) ]
      ELSE d

\* Cache.get without its staleness test
CacheGetNoThreshold(d, path, t) ==
  IF path \in DOMAIN d.responses THEN << d.responses[path].response >> ELSE <<>>

\* Cache.get: <<>> for undefined, else <<response>>
CacheGet(d, path, t) ==
  LET threshold == t - cache_duration_ms
  IN  IF path \in DOMAIN d.responses /\ d.responses[path].date > threshold
      THEN << d.responses[path].response >>
      ELSE <<>>

\* Cache.put without the removal of the key's previous call record
CachePutDataKeepPrevious(d, path, response, t) ==
  LET e == evictData(d, t)
  IN  [ calls |-> Append(e.calls, [ path |-> path, date |-> t ]),
        responses |-> [ p \in DOMAIN e.responses \cup {path} |->
                          IF p = path THEN [ response |-> response, date |-> t ]
                          ELSE e.responses[p] ] ]

\* a Cache.put that writes the new record where the key's previous one was
CachePutDataInPlace(d, path, response, t) ==
  LET e == evictData(d, t)
      index == findIndex({ i \in DOMAIN e.calls : e.calls[i].path = path })
  IN  [ calls |-> IF index > 0
                  THEN [ e.calls EXCEPT ![index] = [ path |-> path, date |-> t ] ]
                  ELSE Append(e.calls, [ path |-> path, date |-> t ]),
        responses |-> [ p \in DOMAIN e.responses \cup {path} |->
                          IF p = path THEN [ response |-> response, date |-> t ]
                          ELSE e.responses[p] ] ]

\* Cache.put up to (not including) its call of flushData
CachePutData(d, path, response, t) ==
  LET e == evictData(d, t)
      index == findIndex({ i \in DOMAIN e.calls : e.calls[i].path = path })
      r == IF path \in DOMAIN e.responses /\ index > 0
           THEN [ calls |-> SubSeq(e.calls, 1, index - 1)
                              \o SubSeq(e.calls, index + 1, Len(e.calls)),
                  responses |-> Restrict(e.responses, DOMAIN e.responses \ {path}) ]
           ELSE e
  IN  [ calls |-> Append(r.calls, [ path |-> path, date |-> t ]),
        responses |-> [ p \in DOMAIN r.responses \cup {path} |->
                          IF p = path THEN [ response |-> response, date |-> t ]
                          ELSE r.responses[p] ] ]

\* flushData, synchronous part: the next counter value
NextCounter(fo) == IF fo # <<>> THEN fo[1].counter + 1 ELSE 0

\* flushData keeping the snapshot of an earlier call
FlushOptsAfterFirstSnapshot(fo, d) ==
  << [ data |-> IF fo # <<>> THEN fo[1].data
                ELSE [ calls |-> d.calls, responses |-> d.responses ],
       counter |-> NextCounter(fo),
       pending |-> TRUE ] >>

\* flushData, synchronous part: the new flushOpts[filename]
FlushOptsAfter(fo, d) ==
  << [ data |-> [ calls |-> d.calls, responses |-> d.responses ],
       counter |-> NextCounter(fo),
       pending |-> TRUE ] >>

\* flushData, synchronous part: the wait(cache_flush_ms || 0) it starts
TimerFor(fo, ms, t) == [ counter |-> NextCounter(fo), due |-> t + ms ]

----------------------------------------------------------------------------
(* Rate-limited API client: src/api/calls/call.ts *)

\* url: the request; cachedResponse: the local of that name; wakeAt: when the
\* pending wait() ends; fetched: httpieGet was called; response: what was
\* returned or thrown away; overlap: the invocations in progress at its start
IdleReq ==
  [ pc |-> "idle", url |-> toURL("video", api_key), cachedResponse |-> <<>>,
    wakeAt |-> 0, fetched |-> FALSE, response |-> <<>>, overlap |-> {} ]

\* the remote's answers to GET url.full: no body, a success envelope, an error
NullBody == [ body |-> FALSE, status_code |-> 0, results |-> 0 ]
HttpResponses(url) ==
  { NullBody,
    [ body |-> TRUE, status_code |-> 1, results |-> 0 ],
    [ body |-> TRUE, status_code |-> 100, results |-> 0 ] }

\* validateResponseStatus without its status_code test
validateResponseStatusBodyOnly(d) == d.body

\* validateResponseStatus: TRUE when it does not throw
validateResponseStatus(d) == d.body /\ d.status_code = 1

\* nextDelay
nextDelay(t) == last_call + rate_limit_ms - t

\* A continuation of an awaited, already settled promise is queued as a
\* microtask: it runs before any timer or I/O callback and before the clock
\* moves.  The caller's continuation after rateLimitGet settles is one too.
MicrotaskPending ==
  \E r \in Reqs :
    req[r].pc \in {"checked1", "checked2", "stored", "returned", "failed"}

\* a wait() whose time has come fires before the clock moves on
WakeDue ==
  \E r \in Reqs : req[r].pc \in {"spin", "delay"} /\ req[r].wakeAt <= now

InProgress == { r \in Reqs : req[r].pc \notin {"idle", "returned", "failed"} }

\* a `finally` block that leaves the in-flight flag as it is
FinallyKeepsCalling ==
  /\ last_call' = now
  /\ UNCHANGED calling

\* rateLimitGet's `finally` block
Finally ==
  /\ last_call' = now
  /\ calling' = FALSE

\* lines 83..89: the rate-limit loop, then the second cacheGet
DelayOrCheck(r) ==
  IF nextDelay(now) > 0
  THEN req' = [ req EXCEPT ![r].pc = "delay", ![r].wakeAt = now + nextDelay(now) ]
  ELSE req' = [ req EXCEPT ![r].pc = "checked2", ![r].wakeAt = 0,
                  ![r].cachedResponse = CacheGet(data, req[r].url.safe, now) ]

\* lines 77..81: the busy wait on `calling`, then taking the turn
TryAcquire(r) ==
  IF calling
  THEN /\ req' = [ req EXCEPT ![r].pc = "spin", ![r].wakeAt = now + poll_ms ]
       /\ UNCHANGED <<last_call, calling>>
  ELSE /\ calling' = TRUE
       /\ DelayOrCheck(r)
       /\ UNCHANGED last_call

\* get / list / search call rateLimitGet, which runs up to its first await;
\* the invocation takes the first free record
Issue(r, base) ==
  /\ req[r].pc = "idle"
  /\ \A q \in Reqs : q < r => req[q].pc # "idle"
  /\ issued < MaxIssued
  /\ flushed = "no"
  /\ issued' = issued + 1
  /\ req' = [ req EXCEPT ![r] =
       [ pc |-> "checked1", url |-> toURL(base, api_key),
         cachedResponse |-> CacheGet(data, toURL(base, api_key).safe, now),
         wakeAt |-> 0, fetched |-> FALSE, response |-> <<>>,
         overlap |-> InProgress ] ]
  /\ UNCHANGED <<now, last_call, calling, lastStart, minGap, cacheVars, diskVars>>
  /\ UNCHANGED <<catVars, pageVars, save>>

\* lines 72..81
AfterFirstCheck(r) ==
  /\ req[r].pc = "checked1"
  /\ IF req[r].cachedResponse # <<>>
     THEN /\ req' = [ req EXCEPT ![r].pc = "returned",
                        ![r].response = req[r].cachedResponse ]
          /\ Finally
     ELSE TryAcquire(r)
  /\ UNCHANGED <<now, issued, lastStart, minGap, cacheVars, diskVars>>
  /\ UNCHANGED <<catVars, pageVars, save>>

\* line 79: wait(500) is over
WakeSpin(r) ==
  /\ req[r].pc = "spin"
  /\ now >= req[r].wakeAt
  /\ ~MicrotaskPending
  /\ TryAcquire(r)
  /\ UNCHANGED <<now, issued, lastStart, minGap, cacheVars, diskVars>>
  /\ UNCHANGED <<catVars, pageVars, save>>

\* line 86: wait(delay) is over
WakeDelay(r) ==
  /\ req[r].pc = "delay"
  /\ now >= req[r].wakeAt
  /\ ~MicrotaskPending
  /\ DelayOrCheck(r)
  /\ UNCHANGED <<now, last_call, calling, issued, lastStart, minGap,
                 cacheVars, diskVars>>
  /\ UNCHANGED <<catVars, pageVars, save>>

Min(a, b) == IF a < b THEN a ELSE b

\* lines 90..96
AfterSecondCheck(r) ==
  /\ req[r].pc = "checked2"
  /\ IF req[r].cachedResponse # <<>>
     THEN /\ req' = [ req EXCEPT ![r].pc = "returned",
                        ![r].response = req[r].cachedResponse ]
          /\ Finally
          /\ UNCHANGED <<lastStart, minGap>>
     ELSE /\ req' = [ req EXCEPT ![r].pc = "http", ![r].fetched = TRUE ]
          /\ lastStart' = now
          /\ minGap' = IF lastStart < 0 THEN minGap
                       ELSE Min(minGap, now - lastStart)
          /\ UNCHANGED <<last_call, calling>>
  /\ UNCHANGED <<now, issued, cacheVars, diskVars>>
  /\ UNCHANGED <<catVars, pageVars, save>>

\* Cache.put, whole: the data, then flushData up to its wait()
CachePut(path, response) ==
  /\ data' = CachePutData(data, path, response, now)
  /\ flushOpts' = FlushOptsAfter(flushOpts, data')
  /\ timers' = timers \cup { TimerFor(flushOpts, cache_flush_ms, now) }
  /\ puts' = puts + 1
  /\ firstPut' = IF puts = 0 THEN now ELSE firstPut
  /\ rapid' = (rapid /\ (puts = 0 \/ now < firstPut + cache_flush_ms))
  /\ lastPut' = [ p \in DOMAIN lastPut \cup {path} |->
                    IF p = path THEN [ response |-> response, date |-> now ]
                    ELSE lastPut[p] ]

\* cacheResponse: the key under which the response is stored
cacheResponse(url, d) == CachePut(url.safe, d)

\* lines 96..98: httpieGet resolves with `data`
HttpDone(r, d) ==
  /\ req[r].pc = "http"
  /\ ~MicrotaskPending
  /\ IF validateResponseStatus(d)
     THEN /\ cacheResponse(req[r].url, d)
          /\ req' = [ req EXCEPT ![r].pc = "stored", ![r].response = <<d>> ]
          /\ UNCHANGED <<last_call, calling>>
     ELSE /\ req' = [ req EXCEPT ![r].pc = "failed", ![r].response = <<d>> ]
          /\ Finally
          /\ UNCHANGED cacheVars
  /\ UNCHANGED <<now, issued, lastStart, minGap, diskVars>>
  /\ UNCHANGED <<catVars, pageVars, save>>

\* line 96: httpieGet rejects (transport failure)
HttpError(r) ==
  /\ req[r].pc = "http"
  /\ ~MicrotaskPending
  /\ req' = [ req EXCEPT ![r].pc = "failed" ]
  /\ Finally
  /\ UNCHANGED <<now, issued, lastStart, minGap, cacheVars, diskVars>>
  /\ UNCHANGED <<catVars, pageVars, save>>

\* line 99: `return data` after the awaited cacheResponse
AfterStore(r) ==
  /\ req[r].pc = "stored"
  /\ req' = [ req EXCEPT ![r].pc = "returned" ]
  /\ Finally
  /\ UNCHANGED <<now, issued, lastStart, minGap, cacheVars, diskVars>>
  /\ UNCHANGED <<catVars, pageVars, save>>

\* the caller's continuation consumes the settled promise
Release(r) ==
  /\ req[r].pc \in {"returned", "failed"}
  /\ req' = [ q \in Reqs |->
                IF q = r THEN IdleReq
                ELSE [ req[q] EXCEPT !.overlap = @ \ {r} ] ]
  /\ UNCHANGED <<now, last_call, calling, issued, lastStart, minGap,
                 cacheVars, diskVars>>
  /\ UNCHANGED <<catVars, pageVars, save>>

\* the clock advances
Tick ==
  /\ now < MaxTime
  /\ ~MicrotaskPending
  /\ ~WakeDue
  /\ now' = now + 1
  /\ UNCHANGED <<apiVars, cacheVars, diskVars>>
  /\ UNCHANGED <<catVars, pageVars, save>>

----------------------------------------------------------------------------
(* Debounced flush and the disk write: src/api/cache flushData, Cache.flush, *)
(* src/io write, src/index.ts run                                            *)

MaxPuts == 3

\* cacheResponse's call of Cache.put, with the payload of the k-th response
Put(path) ==
  /\ flushed = "no"
  /\ puts < MaxPuts
  /\ CachePut(path, [ body |-> TRUE, status_code |-> 1, results |-> puts + 1 ])
  /\ UNCHANGED <<now, apiVars, diskVars>>
  /\ UNCHANGED <<catVars, pageVars, save>>

\* timers run in the order of their due time, then of their creation
FirstTimer(t) ==
  \A u \in timers :
    u.due > t.due \/ (u.due = t.due /\ u.counter >= t.counter)

\* flushData without its counter test
TimerCurrentAlways(t, fo) == TRUE

\* flushData line 82: counter === opts.counter
TimerCurrent(t, fo) == t.counter = fo[1].counter

\* flushData lines 80..89: the wait is over
FlushTimer(t) ==
  /\ t \in timers
  /\ now >= t.due
  /\ FirstTimer(t)
  /\ ~MicrotaskPending
  /\ timers' = timers \ {t}
  /\ IF TimerCurrent(t, flushOpts)
     THEN /\ flushOpts' = << [ flushOpts[1] EXCEPT !.pending = FALSE ] >>
          /\ writes' = writes \cup
               { [ id |-> t.counter, doc |-> flushOpts[1].data,
                   stage |-> "exists", fileExists |-> FALSE ] }
          /\ writeLog' = Append(writeLog, [ doc |-> flushOpts[1].data, puts |-> puts ])
          /\ UNCHANGED flushed
     ELSE /\ UNCHANGED <<flushOpts, writes, writeLog>>
          \* the superseded flushData promise resolves without a write
          /\ flushed' = IF flushed = "waiting" /\ t.counter = flushOpts[1].counter
                        THEN "done" ELSE flushed
  /\ UNCHANGED <<now, apiVars, data, puts, firstPut, rapid, lastPut, disk>>
  /\ UNCHANGED <<catVars, pageVars, save>>

Advance(w, st) == (writes \ {w}) \cup { [ w EXCEPT !.stage = st ] }

\* the promise that flush() awaits settles with the write of the latest counter
Settles(w) == flushed = "waiting" /\ w.id = flushOpts[1].counter

\* io.write lines 268..275: exists(), and the backup copy of an existing file
WriteExists(w) ==
  /\ w \in writes /\ w.stage = "exists"
  /\ writes' = (writes \ {w}) \cup
       { [ w EXCEPT !.stage = "temp", !.fileExists = (disk # <<>>) ] }
  /\ UNCHANGED <<now, apiVars, cacheVars, disk, writeLog, flushed>>
  /\ UNCHANGED <<catVars, pageVars, save>>

\* io.write lines 279..288: serialise and write the temporary file
WriteTemp(w) ==
  /\ w \in writes /\ w.stage = "temp"
  /\ writes' = Advance(w, IF w.fileExists THEN "unlink" ELSE "rename")
  /\ UNCHANGED <<now, apiVars, cacheVars, disk, writeLog, flushed>>
  /\ UNCHANGED <<catVars, pageVars, save>>

\* io.write lines 289..292: unlink the previous file; rejects when it is gone
WriteUnlink(w) ==
  /\ w \in writes /\ w.stage = "unlink"
  /\ IF disk # <<>>
     THEN /\ disk' = <<>>
          /\ writes' = Advance(w, "rename")
          /\ UNCHANGED flushed
     ELSE /\ writes' = writes \ {w}
          /\ flushed' = IF Settles(w) THEN "done" ELSE flushed
          /\ UNCHANGED disk
  /\ UNCHANGED <<now, apiVars, cacheVars, writeLog>>
  /\ UNCHANGED <<catVars, pageVars, save>>

\* io.write lines 293..301: rename the temporary file over the target, drop
\* the backup, resolve
WriteRename(w) ==
  /\ w \in writes /\ w.stage = "rename"
  /\ disk' = << w.doc >>
  /\ writes' = writes \ {w}
  /\ flushed' = IF Settles(w) THEN "done" ELSE flushed
  /\ UNCHANGED <<now, apiVars, cacheVars, writeLog>>
  /\ UNCHANGED <<catVars, pageVars, save>>

\* run() lines 118..120 and Cache.flush: the command is over
Flush ==
  /\ flushed = "no"
  /\ \A r \in Reqs : req[r].pc = "idle"
  /\ IF flushOpts # <<>> /\ flushOpts[1].pending
     THEN /\ flushOpts' = FlushOptsAfter(flushOpts, flushOpts[1].data)
          /\ timers' = timers \cup { TimerFor(flushOpts, 0, now) }
          /\ flushed' = "waiting"
     ELSE /\ flushed' = "done"
          /\ UNCHANGED <<flushOpts, timers>>
  /\ UNCHANGED <<now, apiVars, data, puts, firstPut, rapid, lastPut, writes, disk, writeLog>>
  /\ UNCHANGED <<catVars, pageVars, save>>

\* run() line 123: process.exit ends the timers and the writes in progress
Exit ==
  /\ flushed = "done"
  /\ flushed' = "exited"
  /\ timers' = {}
  /\ writes' = {}
  /\ UNCHANGED <<now, apiVars, data, flushOpts, puts, firstPut, rapid, lastPut, disk, writeLog>>
  /\ UNCHANGED <<catVars, pageVars, save>>

\* the processor Cache.load hands to io.read, on the content of the file:
\* <<>> when it throws, else <<the data it returns>>. A file that cannot be
\* read, is no JSON text or has no calls to iterate is [ broken |-> how ]; a
\* document may lack its responses, and evictData then throws when it
\* deletes one
processor(file, t) ==
  IF "broken" \in DOMAIN file THEN <<>>
  ELSE IF "responses" \in DOMAIN file THEN << evictData(file, t) >>
  ELSE LET evicted == evictData([ calls |-> file.calls, responses |-> <<>> ], t)
       IN IF Len(evicted.calls) = Len(file.calls) THEN << file >>
          ELSE IF evicted.calls = <<>> THEN << EmptyData >>
          ELSE <<>>

\* io.read: defaultValue when the file cannot be read or processed
read(file, defaultValue, t) ==
  IF file = <<>> \/ processor(file[1], t) = <<>> THEN defaultValue
  ELSE processor(file[1], t)[1]

\* Cache.load (run() lines 105..109): read the file, evict, and flush when
\* something was evicted; a missing file leaves the constructor's empty data
Load ==
  /\ flushed = "loading"
  /\ data' = read(disk, data, now)
  /\ IF disk # <<>> /\ processor(disk[1], now) # <<>>
        /\ Len(disk[1].calls) - Len(data'.calls) # 0
     THEN /\ flushOpts' = FlushOptsAfter(flushOpts, data')
          /\ timers' = timers \cup { TimerFor(flushOpts, cache_flush_ms, now) }
     ELSE UNCHANGED <<flushOpts, timers>>
  /\ flushed' = "no"
  /\ UNCHANGED <<now, apiVars, puts, firstPut, rapid, lastPut, writes, disk, writeLog>>
  /\ UNCHANGED <<catVars, pageVars, save>>

\* the clock of a process that outlives its cache entries
MaxCacheTime == StartTime + cache_duration_ms + 1

TickCache ==
  /\ flushed # "loading"
  /\ now < MaxCacheTime
  /\ ~MicrotaskPending
  /\ ~WakeDue
  /\ now' = now + 1
  /\ UNCHANGED <<apiVars, cacheVars, diskVars>>
  /\ UNCHANGED <<catVars, pageVars, save>>

----------------------------------------------------------------------------
(* The catalog of a show: commands/utils/catalog (create, findEpisode) *)

MaxVideos     == 3
MaxGameVideos == 10
MaxEpisodes   == 20

\* 30 days; dates are counted in days
month == 30

\* publish_date is kept as the number of days since 2019-01-01; the year
\* season name is the text before the first '-' of 'YYYY-MM-DD hh:mm:ss'
YearOf(publish_date) ==
  IF publish_date < 365 THEN "2019"
  ELSE IF publish_date < 731 THEN "2020" ELSE "2021"

\* 2019-12-29, 2020-01-02, 2020-12-20, 2021-01-05
Dates == { 362, 366, 719, 735 }

\* a name is kept as the set of texts a regular expression search finds in it:
\* "Episode", "__STUB__ reel", "Best of 2019"
Names == { {}, {"__stub__"}, {"2019"} }

\* (episode.name || '').match(RegExp(text, 'ig'))
Matches(name, text) == text \in name

\* associations of a video: none, one game, a person followed by a game
Associations ==
  { <<>>,
    << [ api_detail_url |-> <<"game", 1>>, name |-> "A" ] >>,
    << [ api_detail_url |-> <<"person", 7>>, name |-> "P" ],
       [ api_detail_url |-> <<"game", 2>>, name |-> "B" ] >> }

\* ids and guids as the server gives them: distinct, and not the position
VideoId(i) == i + i + 1

VideoAt(i, publish_date, name, associations) ==
  [ id |-> VideoId(i), guid |-> <<2300, VideoId(i)>>, name |-> name,
    publish_date |-> publish_date, associations |-> associations ]

\* api.video.all with sort publish_date asc returns a list of at most max
\* videos
VideoList(max, dates, names, assocs) ==
  \E n \in 0..max :
    \E d \in [1..n -> dates] :
      /\ \A i \in 1..n, j \in 1..n : i <= j => d[i] <= d[j]
      /\ \E nm \in [1..n -> names], as \in [1..n -> assocs] :
           videos = [ i \in 1..n |-> VideoAt(i, d[i], nm[i], as[i]) ]

\* api.video.get(guid)
videoGet(guid) == CHOOSE v \in { videos[i] : i \in DOMAIN videos } : v.guid = guid

\* a pass that applies the name guard with --copy-year too
YearPassGuarded(years, episode, cy) ==
  IF Len(years) = 0
  THEN IF ~Matches(episode.name, "__stub__")
       THEN << [ name |-> YearOf(episode.publish_date), episodes |-> <<episode>> ] >>
       ELSE years
  ELSE
    LET year     == YearOf(episode.publish_date)
        lastName == years[Len(years)].name
        pushed   == IF year # lastName /\ ~Matches(episode.name, lastName)
                    THEN Append(years, [ name |-> year, episodes |-> <<>> ])
                    ELSE years
    IN [ pushed EXCEPT ![Len(pushed)].episodes = Append(@, episode) ]

\* one pass of the year-season loop of create. lastYear is the last element
\* of years, or the '__stub__' season (which is in no list) while years is
\* empty
YearPass(years, episode, cy) ==
  IF Len(years) = 0
  THEN IF cy \/ ~Matches(episode.name, "__stub__")
       THEN << [ name |-> YearOf(episode.publish_date), episodes |-> <<episode>> ] >>
       ELSE years
  ELSE
    LET year     == YearOf(episode.publish_date)
        lastName == years[Len(years)].name
        start    == year # lastName /\ (cy \/ ~Matches(episode.name, lastName))
        pushed   == IF start
                    THEN Append(years, [ name |-> year, episodes |-> <<>> ])
                    ELSE years
    IN [ pushed EXCEPT ![Len(pushed)].episodes = Append(@, episode) ]

RECURSIVE YearSeasons(_, _, _)
\* the years list after the first n passes of the loop
YearSeasons(episodes, cy, n) ==
  IF n = 0 THEN <<>>
  ELSE YearPass(YearSeasons(episodes, cy, n - 1), episodes[n], cy)

\* (gameAssociation && gameAssociation.name) || 'None'
GameOf(episode) ==
  LET a == episode.associations
      g == findIndex({ i \in DOMAIN a : a[i].api_detail_url[1] = "game" })
  IN IF g = 0 THEN "None" ELSE a[g].name

\* one pass of the game-season loop of create
GamePass(games, episode) ==
  LET found == findIndex({ g \in DOMAIN games : games[g].name = GameOf(episode) })
  IN IF found = 0
     THEN Append(games, [ name |-> GameOf(episode), episodes |-> <<episode>> ])
     ELSE [ games EXCEPT ![found].episodes = Append(@, episode) ]

RECURSIVE GameSeasons(_, _)
\* the games list after the first n passes of the loop
GameSeasons(episodes, n) ==
  IF n = 0 THEN <<>>
  ELSE GamePass(GameSeasons(episodes, n - 1), episodes[n])

\* a break point that asks for a gap of less than a month after the episode
breakPointShortGap(episodes, lastYearFinal) ==
  findIndex({ k \in 2..Len(episodes) :
    /\ episodes[k - 1].publish_date - lastYearFinal < month
    /\ episodes[k].publish_date - episodes[k - 1].publish_date < month })

\* a break point that asks for a gap of a month, not of ten and a half
breakPointOneMonth(episodes, lastYearFinal) ==
  findIndex({ k \in 2..Len(episodes) :
    /\ episodes[k - 1].publish_date - lastYearFinal < month
    /\ episodes[k].publish_date - episodes[k - 1].publish_date > month })

\* a break point search that starts one episode later
breakPointFromSecond(episodes, lastYearFinal) ==
  findIndex({ k \in 3..Len(episodes) :
    /\ episodes[k - 1].publish_date - lastYearFinal < month
    /\ 2 * (episodes[k].publish_date - episodes[k - 1].publish_date)
         > month * 21 })

\* the first e (counted from 1) with lastEDistance < month and
\* eDistance > month * 10.5, 0 for none
breakPoint(episodes, lastYearFinal) ==
  findIndex({ k \in 2..Len(episodes) :
    /\ episodes[k - 1].publish_date - lastYearFinal < month
    /\ 2 * (episodes[k].publish_date - episodes[k - 1].publish_date)
         > month * 21 })

RECURSIVE CorrectYears(_, _)
\* the year-split correction of create, from season s on (s counted from 1):
\* the first break point e moves the episodes before it to the season before
CorrectYears(years, s) ==
  IF s > Len(years) THEN years
  ELSE
    LET lastYearEpisodes == years[s - 1].episodes
        lastYearFinal == lastYearEpisodes[Len(lastYearEpisodes)].publish_date
        episodes == years[s].episodes
        e == breakPoint(episodes, lastYearFinal)
    IN CorrectYears(
         IF e = 0 THEN years
         ELSE [ years EXCEPT
                  ![s - 1].episodes = lastYearEpisodes \o SubSeq(episodes, 1, e - 1),
                  ![s].episodes = SubSeq(episodes, e, Len(episodes)) ],
         s + 1)

preferredSeasonsAverage3(episodes, games) ==
  IF Len(games) > 1 /\ Len(episodes) >= 3 * Len(games) THEN "games" ELSE "years"

\* games.length > 1 && episodes.length / games.length >= 5 ? 'games' : 'years'
\* (the quotient of the two lengths is at least 5 exactly when the
\* dividend is at least 5 times the divisor)
preferredSeasons(episodes, games) ==
  IF Len(games) > 1 /\ Len(episodes) >= 5 * Len(games) THEN "games" ELSE "years"

create(results, cy) ==
  LET episodes == results
      split    == YearSeasons(episodes, cy, Len(episodes))
      games    == GameSeasons(episodes, Len(episodes))
      years    == IF cy THEN split ELSE CorrectYears(split, 2)
  IN [ episodes |-> episodes,
       seasons |-> [ years |-> years, games |-> games ],
       preferredSeasons |-> preferredSeasons(episodes, games) ]

\* findEpisode without a season: <<>> when it throws, else <<the reference>>
findEpisode(cat, episode, seasonType) ==
  IF episode \notin DOMAIN cat.episodes THEN <<>>
  ELSE
    LET video   == videoGet(cat.episodes[episode].guid)
        guid    == video.guid
        seasons == cat.seasons[seasonType]
        Has(eps) == { e \in DOMAIN eps : eps[e].guid = guid }
        seasonNumber == findIndex({ s \in DOMAIN seasons : Has(seasons[s].episodes) # {} })
    IN IF seasonNumber = 0 THEN <<>>
       ELSE << [ video |-> video,
                 seasonType |-> seasonType,
                 seasonNumber |-> seasonNumber,
                 seasonName |-> seasons[seasonNumber].name,
                 seasonEpisodeNumber |-> findIndex(Has(seasons[seasonNumber].episodes)),
                 showEpisodeNumber |-> findIndex(Has(cat.episodes)),
                 seasonEpisodeCount |-> Len(seasons[seasonNumber].episodes),
                 showEpisodeCount |-> Len(cat.episodes),
                 seasonCount |-> Len(seasons) ] >>

\* download.process: targetCatalog = await catalog.create(...)
Create ==
  /\ catalog = <<>>
  /\ catalog' = << create(videos, copy_year) >>
  /\ UNCHANGED <<videos, copy_year, anchorCommands, anchors, includedIDs, dlVars>>
  /\ UNCHANGED <<now, apiVars, cacheVars, diskVars, pageVars, save>>

----------------------------------------------------------------------------
(* Anchors and their composition: subprocessors/anchor find, download process *)

AnchorTypes == { "from", "after", "to", "through" }

\* download with a show and nothing else: each of season, episode and
\* season_type is <<>> when absent
NoOptions == [ season |-> <<>>, episode |-> <<>>, season_type |-> <<>> ]

InclusiveAlways(anchorType) == TRUE

\* find: inclusive is true for 'from' (the default) and 'through'
Inclusive(anchorType) == anchorType \notin { "after", "to" }

DirectionForward(anchorType) == "forward"

\* find: direction is backward for 'to' and 'through'
Direction(anchorType) ==
  IF anchorType \in { "to", "through" } THEN "backward" ELSE "forward"

\* anchor.find for `<anchorType> --episode <episode>`, no season given:
\* <<>> when it throws, else <<the AnchorResult>>
find(cat, seasonType, anchorType, episode) ==
  LET episodeCatalogReference == findEpisode(cat, episode, seasonType)
  IN IF episodeCatalogReference = <<>> THEN <<>>
     ELSE << [ episode |-> episodeCatalogReference[1],
               inclusive |-> Inclusive(anchorType),
               structure |-> "flat",
               direction |-> Direction(anchorType) ] >>

\* a season argument is a string: isNumber says whether Number(season) is a
\* number (then number is its value), text is the string otherwise
SeasonNumber(n) == [ isNumber |-> TRUE, number |-> n, text |-> "" ]
SeasonText(t) == [ isNumber |-> FALSE, number |-> 0, text |-> t ]

RECURSIVE Decimal(_)
\* the decimal digits of `${n}`
Decimal(n) == IF n < 10 THEN << n >> ELSE Append(Decimal(n \div 10), n % 10)

\* the digits of a season name (year seasons are named by their year, game
\* seasons by the game: "None", "A", "B", "A7", "A1")
NameDigits(name) ==
  IF name = "2019" THEN << 2, 0, 1, 9 >>
  ELSE IF name = "2020" THEN << 2, 0, 2, 0 >>
  ELSE IF name = "2021" THEN << 2, 0, 2, 1 >>
  ELSE IF name = "A7" THEN << 7 >>
  ELSE IF name = "A1" THEN << 1 >>
  ELSE << >>

\* the letters of a season name, in lower case
NameLetters(name) ==
  IF name = "None" THEN { "n", "o", "e" }
  ELSE IF name = "A" THEN { "a" }
  ELSE IF name = "B" THEN { "b" }
  ELSE IF name = "A7" THEN { "a" }
  ELSE IF name = "A1" THEN { "a" }
  ELSE {}

\* s.name.match(RegExp(`${season}`, 'ig')), for a season that is a number or
\* one letter
seasonMatch(name, season) ==
  IF season.isNumber
  THEN LET sub == Decimal(season.number)
           seq == NameDigits(name)
       IN \E i \in 0..(Len(seq) - Len(sub)) : SubSeq(seq, i + 1, i + Len(sub)) = sub
  ELSE season.text \in NameLetters(name)

\* catalog.findSeason: <<>> when it throws, else <<the reference>>
findSeason(cat, season, seasonType) ==
  LET direct  == season.isNumber /\ season.number \in DOMAIN cat.seasons[seasonType]
      byYear  == findIndex({ n \in DOMAIN cat.seasons.years :
                             seasonMatch(cat.seasons.years[n].name, season) })
      byGame  == findIndex({ n \in DOMAIN cat.seasons.games :
                             seasonMatch(cat.seasons.games[n].name, season) })
      numbered == season.isNumber /\ (direct \/ byYear # 0)
      type    == IF numbered THEN (IF direct THEN seasonType ELSE "years") ELSE "games"
      seasonNumber == IF numbered THEN (IF direct THEN season.number ELSE byYear)
                      ELSE byGame
  IN IF seasonNumber = 0 THEN <<>>
     ELSE << [ seasonType |-> type,
               seasonNumber |-> seasonNumber,
               seasonName |-> cat.seasons[type][seasonNumber].name,
               seasonCount |-> Len(cat.seasons[type]),
               seasonEpisodeCount |-> Len(cat.seasons[type][seasonNumber].episodes),
               showEpisodeCount |-> Len(cat.episodes) ] >>

\* the end of findEpisode: the reference of a video among seasons, <<>> when
\* no season holds it
episodeReference(cat, video, seasons, seasonType) ==
  LET guid    == video.guid
      Has(eps) == { e \in DOMAIN eps : eps[e].guid = guid }
      seasonNumber == findIndex({ s \in DOMAIN seasons : Has(seasons[s].episodes) # {} })
  IN IF seasonNumber = 0 THEN <<>>
     ELSE << [ video |-> video,
               seasonType |-> seasonType,
               seasonNumber |-> seasonNumber,
               seasonName |-> seasons[seasonNumber].name,
               seasonEpisodeNumber |-> findIndex(Has(seasons[seasonNumber].episodes)),
               showEpisodeNumber |-> findIndex(Has(cat.episodes)),
               seasonEpisodeCount |-> Len(seasons[seasonNumber].episodes),
               showEpisodeCount |-> Len(cat.episodes),
               seasonCount |-> Len(seasons) ] >>

\* a findEpisode that counts the episode within the show, season or not
findEpisodeOfShow(cat, episode, season, seasonType) == findEpisode(cat, episode, seasonType)

\* findEpisode with a season (episode counted from 1): <<>> when it throws
findEpisodeOfSeason(cat, episode, season, seasonType) ==
  LET direct  == season.isNumber /\ season.number \in DOMAIN cat.seasons[seasonType]
      byYear  == findIndex({ n \in DOMAIN cat.seasons.years :
                             seasonMatch(cat.seasons.years[n].name, season) })
      \* seasonType after the numeric branch
      type    == IF season.isNumber /\ ~direct THEN "years" ELSE seasonType
      seasonObj == IF ~season.isNumber THEN <<>>
                   ELSE IF direct THEN << cat.seasons[seasonType][season.number] >>
                   ELSE IF byYear # 0 THEN << cat.seasons.years[byYear] >>
                   ELSE <<>>
      byGame  == findIndex({ n \in DOMAIN cat.seasons.games :
                             seasonMatch(cat.seasons.games[n].name, season) })
  IN IF seasonObj # <<>> /\ episode <= Len(seasonObj[1].episodes)
     THEN episodeReference(cat, videoGet(seasonObj[1].episodes[episode].guid),
                           cat.seasons[type], type)
     ELSE IF byGame # 0 /\ episode <= Len(cat.seasons.games[byGame].episodes)
     THEN \* seasons is read before seasonType becomes 'games'
          episodeReference(cat, videoGet(cat.seasons.games[byGame].episodes[episode].guid),
                           cat.seasons[type], "games")
     ELSE <<>>

\* the last episode of the season, where the code takes it
episodeNumberLastWhenBackward(anchorType, seasonCatalogReference) ==
  IF anchorType = "to" \/ anchorType = "through"
  THEN seasonCatalogReference.seasonEpisodeCount ELSE 1

\* find: the episode that is the outer boundary of the season
episodeNumber(anchorType, seasonCatalogReference) ==
  IF anchorType = "after" \/ anchorType = "through"
  THEN seasonCatalogReference.seasonEpisodeCount ELSE 1

\* anchor.find without --video: <<>> when it throws, else <<the AnchorResult>>.
\* Each of opts.identifier, opts.episode and opts.season is <<>> when absent.
\* An identifier is kept as what the two regular expressions find in it:
\* [ s |-> <<season>> or <<>>, e |-> <<episode>> or <<>> ]; one with neither
\* is a date or unreadable
findAnchor(cat, seasonType, anchorType, opts) ==
  LET inclusive == Inclusive(anchorType)
      direction == Direction(anchorType)
      identifierCount == Len(opts.identifier) + Len(opts.episode)
      Result(reference, structure) ==
        IF reference = <<>> THEN <<>>
        ELSE << [ episode |-> reference[1], inclusive |-> inclusive,
                  structure |-> structure, direction |-> direction ] >>
      Of(episode, season, type) ==
        IF season = <<>> THEN findEpisode(cat, episode, type)
        ELSE findEpisodeOfSeason(cat, episode, season[1], type)
  IN IF identifierCount > 1 THEN <<>>
     ELSE IF identifierCount = 0
     THEN IF opts.season = <<>> THEN <<>>
          ELSE LET seasonCatalogReference == findSeason(cat, opts.season[1], seasonType)
               IN IF seasonCatalogReference = <<>> THEN <<>>
                  ELSE Result(
                         findEpisodeOfSeason(cat,
                           episodeNumber(anchorType, seasonCatalogReference[1]),
                           SeasonNumber(seasonCatalogReference[1].seasonNumber),
                           seasonCatalogReference[1].seasonType),
                         "season")
     ELSE IF opts.episode # <<>>
     THEN Result(Of(opts.episode[1], opts.season, seasonType),
                 IF opts.season # <<>> THEN "season" ELSE "flat")
     ELSE LET identifier == opts.identifier[1]
          IN IF identifier.e # <<>>
             THEN LET seSeason == IF identifier.s # <<>>
                                  THEN << SeasonNumber(identifier.s[1]) >> ELSE opts.season
                  IN Result(Of(identifier.e[1], seSeason, seasonType),
                            IF seSeason # <<>> THEN "season" ELSE "flat")
             ELSE IF identifier.s # <<>>
             THEN LET sSeason == SeasonNumber(identifier.s[1])
                      seasonCatalogReference == findSeason(cat, sSeason, seasonType)
                  IN IF seasonCatalogReference = <<>> THEN <<>>
                     ELSE Result(
                            findEpisodeOfSeason(cat,
                              episodeNumber(anchorType, seasonCatalogReference[1]),
                              sSeason, seasonType),
                            "season")
             ELSE <<>>

\* the ids one anchor leaves valid
anchoredIDs(cat, a) ==
  IF a.structure = "season"
  THEN
    LET seasons == cat.seasons[a.episode.seasonType]
        sStart  == a.episode.seasonNumber
        eps(s)  == seasons[s].episodes
    IN IF a.direction = "forward"
       THEN
         LET eStart == a.episode.seasonEpisodeNumber + (IF a.inclusive THEN 0 ELSE 1)
         IN UNION { { eps(s)[e].id :
                        e \in (IF s = sStart THEN eStart ELSE 1)..Len(eps(s)) } :
                    s \in sStart..a.episode.seasonCount }
       ELSE
         LET eStart == a.episode.seasonEpisodeNumber - (IF a.inclusive THEN 0 ELSE 1)
         IN UNION { { eps(s)[e].id :
                        e \in 1..(IF s = sStart THEN eStart ELSE Len(eps(s))) } :
                    s \in 1..sStart }
  ELSE
    LET found == findIndex({ e \in DOMAIN cat.episodes :
                             cat.episodes[e].id = a.episode.video.id })
    IN IF a.direction = "forward"
       THEN
         LET eStart == found + (IF a.inclusive THEN 0 ELSE 1)
         IN { cat.episodes[e].id : e \in eStart..Len(cat.episodes) }
       ELSE
         LET eStart == found - (IF a.inclusive THEN 0 ELSE 1)
         IN { cat.episodes[e].id : e \in 1..eStart }

\* the loops over an anchor's seasons and episodes read no season and no
\* episode that is not there (a TypeError else)
Composable(cat, a) ==
  IF a.structure = "season"
  THEN
    LET seasons == cat.seasons[a.episode.seasonType]
        sStart  == a.episode.seasonNumber
    IN IF a.direction = "forward"
       THEN \A s \in sStart..a.episode.seasonCount : s \in DOMAIN seasons
       ELSE /\ sStart \in DOMAIN seasons
            /\ a.episode.seasonEpisodeNumber - (IF a.inclusive THEN 0 ELSE 1)
                 <= Len(seasons[sStart].episodes)
  ELSE
    LET found == findIndex({ e \in DOMAIN cat.episodes :
                             cat.episodes[e].id = a.episode.video.id })
    IN ~(found = 0 /\ a.direction = "forward" /\ a.inclusive)

\* a compositor that keeps a video valid under any one anchor
composeIDsAny(cat, as) ==
  { i \in { cat.episodes[e].id : e \in DOMAIN cat.episodes } :
      as = <<>> \/ \E k \in DOMAIN as : i \in anchoredIDs(cat, as[k][1]) }

\* a video stays included when it is valid under every anchor
composeIDs(cat, as) ==
  { i \in { cat.episodes[e].id : e \in DOMAIN cat.episodes } :
      \A k \in DOMAIN as : i \in anchoredIDs(cat, as[k][1]) }

Thrown == \E k \in DOMAIN anchors : anchors[k] = <<>>

\* one pass of the anchorCommands loop, for a command `<anchorType> --episode
\* <episode>`; the command lines enumerated hold at most one anchor of each
\* direction
AnchorCommand(anchorType, episode) ==
  /\ catalog # <<>>
  /\ includedIDs = <<>>
  /\ ~Thrown
  /\ \A k \in DOMAIN anchorCommands :
       Direction(anchorCommands[k].anchorType) # Direction(anchorType)
  /\ anchorCommands' =
       Append(anchorCommands, [ anchorType |-> anchorType, episode |-> episode ])
  /\ anchors' = Append(anchors,
       find(catalog[1], catalog[1].preferredSeasons, anchorType, episode))
  /\ UNCHANGED <<videos, copy_year, catalog, includedIDs, dlVars>>
  /\ UNCHANGED <<now, apiVars, cacheVars, diskVars, pageVars, save>>

\* the anchors divide the episode list: includedIDs
Compose ==
  /\ catalog # <<>>
  /\ includedIDs = <<>>
  /\ ~Thrown /\ ~failed
  /\ IF \A k \in DOMAIN anchors : Composable(catalog[1], anchors[k][1])
     THEN includedIDs' = << composeIDs(catalog[1], anchors) >> /\ UNCHANGED failed
     ELSE failed' = TRUE /\ UNCHANGED includedIDs
  /\ UNCHANGED <<videos, copy_year, catalog, anchorCommands, anchors, options>>
  /\ UNCHANGED <<now, apiVars, cacheVars, diskVars, pageVars, save>>

\* the season arguments, identifiers and options of the commands enumerated:
\* seasons by number, by year, by a number in a game's name and by one letter
\* of it; identifiers such as S1, S2020, S7, E2, S2E2, and one that is neither
SeasonArgs == { SeasonNumber(n) : n \in { 1, 2020, 7 } } \cup { SeasonText("a") }

Identifiers ==
  { [ s |-> sn, e |-> en ] :
      sn \in { <<>>, <<1>>, <<2>>, <<2020>>, <<7>> }, en \in { <<>>, <<2>> } }

AnchorOpts ==
  { [ identifier |-> i, episode |-> e, season |-> sn ] :
      i \in { <<>> } \cup { << x >> : x \in Identifiers },
      e \in { <<>>, <<1>> },
      sn \in { <<>> } \cup { << x >> : x \in SeasonArgs } }

\* anchor.process for a command line of one anchor command, with --season-type
\* given or not
AnchorIdentify(anchorType, seasonType, opts) ==
  /\ catalog # <<>>
  /\ includedIDs = <<>>
  /\ anchorCommands = <<>>
  /\ anchorCommands' =
       << [ anchorType |-> anchorType, seasonType |-> seasonType, opts |-> opts ] >>
  /\ anchors' = << findAnchor(catalog[1], seasonType, anchorType, opts) >>
  /\ UNCHANGED <<videos, copy_year, catalog, includedIDs, dlVars>>
  /\ UNCHANGED <<now, apiVars, cacheVars, diskVars, pageVars, save>>

\* season_type || targetCatalog.preferredSeasons
seasonTypeOf(cat, o) ==
  IF o.season_type # <<>> THEN o.season_type[1] ELSE cat.preferredSeasons

\* the anchors download.process pushes for --season and --episode of the main
\* command, before the anchor commands: a 'from' and a 'through' of
\* anchorOpts, which holds the season and no episode in both blocks
mainAnchors(cat, o) ==
  LET anchorOpts == [ identifier |-> <<>>, episode |-> <<>>, season |-> o.season ]
      both == << findAnchor(cat, seasonTypeOf(cat, o), "from", anchorOpts),
                 findAnchor(cat, seasonTypeOf(cat, o), "through", anchorOpts) >>
  IN (IF o.season # <<>> /\ o.episode = <<>> THEN both ELSE <<>>)
       \o (IF o.episode # <<>> /\ o.episode[1] # 0 THEN both ELSE <<>>)

\* download.process with a show, up to the anchor commands: the catalog and
\* the anchors of the main command
Main ==
  /\ catalog = <<>>
  /\ catalog' = << create(videos, copy_year) >>
  /\ anchors' = mainAnchors(create(videos, copy_year), options)
  /\ UNCHANGED <<videos, copy_year, anchorCommands, includedIDs, dlVars>>
  /\ UNCHANGED <<now, apiVars, cacheVars, diskVars, pageVars, save>>

\* one pass of the anchorCommands loop through anchor.process, for a command
\* `<anchorType> --episode <episode>` (season = options.season ||
\* context.season); anchor commands do not combine with --episode of the main
\* command, and the command lines enumerated hold at most one anchor of each
\* direction
AnchorProcess(anchorType, episode) ==
  /\ catalog # <<>>
  /\ includedIDs = <<>>
  /\ ~Thrown
  /\ options.episode = <<>>
  /\ \A k \in DOMAIN anchorCommands :
       Direction(anchorCommands[k].anchorType) # Direction(anchorType)
  /\ anchorCommands' =
       Append(anchorCommands, [ anchorType |-> anchorType, episode |-> episode ])
  /\ anchors' = Append(anchors,
       findAnchor(catalog[1], seasonTypeOf(catalog[1], options), anchorType,
                  [ identifier |-> <<>>, episode |-> << episode >>,
                    season |-> options.season ]))
  /\ UNCHANGED <<videos, copy_year, catalog, includedIDs, dlVars>>
  /\ UNCHANGED <<now, apiVars, cacheVars, diskVars, pageVars, save>>

----------------------------------------------------------------------------
(* Saving a download: commands/utils/save downloadUrl *)

MaxChunks == 3

\* the three paths of one call: filename, `${filename}.backup.${labelText}`
\* and `${filename}.update.${labelText}`
Paths == { "filename", "backup", "temp" }

\* a file is <<>> while missing, else <<its content>>: what it holds and how
\* many chunks of it are written
OldFile == << [ content |-> "old", size |-> 1 ] >>
NewFile(size) == << [ content |-> "new", size |-> size ] >>

\* no downloadUrl call
NoSave ==
  [ pc |-> "none", replace |-> FALSE, backup |-> FALSE, direct |-> FALSE, total |-> 0,
    files |-> [ p \in Paths |-> <<>> ], backupFilename |-> FALSE ]

\* a download that always writes to the final path
destinationDirect(direct) == "filename"

\* the path dl() writes to: filename when direct, else the temporary path
destination(direct) == IF direct THEN "filename" ELSE "temp"

\* downloadUrl is called with its options, for a response of total chunks, on
\* a destination that holds a file or not
SaveCall(replace, backup, direct, total, existing) ==
  /\ save.pc = "none"
  /\ save' = [ NoSave EXCEPT !.pc = "start", !.replace = replace, !.backup = backup,
                             !.direct = direct, !.total = total,
                             !.files["filename"] = IF existing THEN OldFile ELSE <<>> ]
  /\ UNCHANGED <<now, apiVars, cacheVars, diskVars, catVars, pageVars>>

\* if (!replace && await io.exists({ filename })) return ... updated:false
SaveExists ==
  /\ save.pc = "start"
  /\ save' = [ save EXCEPT !.pc = IF ~save.replace /\ save.files["filename"] # <<>>
                                  THEN "returned" ELSE "backup" ]
  /\ UNCHANGED <<now, apiVars, cacheVars, diskVars, catVars, pageVars>>

\* back up the original: fs.rename(filename, backupFilename), whose failure
\* is logged and nothing more
SaveBackup(ok) ==
  /\ save.pc = "backup"
  /\ LET fileExists == save.files["filename"] # <<>>
     IN save' = [ save EXCEPT
                    !.pc = "download",
                    !.backupFilename = fileExists,
                    !.files = IF fileExists /\ ok
                              THEN [ @ EXCEPT !["backup"] = save.files["filename"],
                                              !["filename"] = <<>> ]
                              ELSE @ ]
  /\ UNCHANGED <<now, apiVars, cacheVars, diskVars, catVars, pageVars>>

\* dl: stream.pipe(fsSync.createWriteStream(destination)) opens the file
SaveOpen ==
  /\ save.pc = "download"
  /\ save' = [ save EXCEPT !.pc = "stream",
                           !.files[destination(save.direct)] = NewFile(0) ]
  /\ UNCHANGED <<now, apiVars, cacheVars, diskVars, catVars, pageVars>>

\* the stream writes one more chunk
SaveChunk ==
  /\ save.pc = "stream"
  /\ save.files[destination(save.direct)][1].size < save.total
  /\ save' = [ save EXCEPT !.files[destination(save.direct)] = NewFile(@[1].size + 1) ]
  /\ UNCHANGED <<now, apiVars, cacheVars, diskVars, catVars, pageVars>>

\* await stream throws (not a RangeError after the end): downloadUrl throws
SaveStreamError ==
  /\ save.pc = "stream"
  /\ save' = [ save EXCEPT !.pc = "thrown" ]
  /\ UNCHANGED <<now, apiVars, cacheVars, diskVars, catVars, pageVars>>

\* await stream is over; when not direct, fs.rename(temp, filename)
SaveRename(ok) ==
  /\ save.pc = "stream"
  /\ save.files[destination(save.direct)][1].size = save.total
  /\ IF save.direct
     THEN ok /\ save' = [ save EXCEPT !.pc = "cleanup" ]
     ELSE IF ok /\ save.files["temp"] # <<>>
     THEN save' = [ save EXCEPT !.pc = "cleanup",
                                !.files = [ @ EXCEPT !["filename"] = save.files["temp"],
                                                     !["temp"] = <<>> ] ]
     ELSE save' = [ save EXCEPT !.pc = "thrown" ]
  /\ UNCHANGED <<now, apiVars, cacheVars, diskVars, catVars, pageVars>>

\* clean up backup: fs.unlink(backupFilename), whose failure is logged and
\* nothing more; then the result with updated:true
SaveCleanup(ok) ==
  /\ save.pc = "cleanup"
  /\ save' = [ save EXCEPT
                 !.pc = "returned",
                 !.files["backup"] = IF ~save.backup /\ save.backupFilename /\ ok
                                     THEN <<>> ELSE @ ]
  /\ UNCHANGED <<now, apiVars, cacheVars, diskVars, catVars, pageVars>>

----------------------------------------------------------------------------
(* Paged listing: call.ts autopageList, video.ts find *)

MaxItems == 4
MaxLimit == 3

\* no autopageList call
NoAutopage ==
  [ pc |-> "none", until |-> FALSE, start |-> 0, offset |-> 0, total |-> <<>>, stop |-> FALSE,
    results |-> <<>>, output |-> <<>>, requested |-> <<>> ]

NoListing ==
  /\ remote = [ items |-> <<>>, limit |-> 1 ]
  /\ autopage = NoAutopage

\* the items the remote holds, in its fixed order; match is what the
\* caller's predicate answers for the item
RemoteItems(n, m) == [ i \in 1..n |-> [ id |-> VideoId(i), match |-> m[i] ] ]

\* until && until(item)
Until(item) == autopage.until /\ item.match

\* a some() that visits every item of the page
PushedPage(page) == page

\* data.results.some(item => { results.push(item); return until && until(item) }):
\* the items pushed, which end with the first one the predicate accepts
Pushed(page) ==
  LET hit == findIndex({ i \in DOMAIN page : Until(page[i]) })
  IN IF hit = 0 THEN page ELSE SubSeq(page, 1, hit)

\* offset <= total
OffsetAtMostTotal == IF autopage.total = <<>> THEN TRUE ELSE autopage.offset <= autopage.total[1]

\* offset < total, where total starts as Infinity (kept as <<>>)
OffsetBelowTotal == IF autopage.total = <<>> THEN TRUE ELSE autopage.offset < autopage.total[1]

\* one pass of the while loop: list() at the current offset, answered by the
\* remote with number_of_total_results and the next k items
AutopagePass(k) ==
  /\ autopage.pc = "loop"
  /\ ~autopage.stop /\ OffsetBelowTotal
  /\ LET n    == Len(remote.items)
         from == autopage.offset
         page == SubSeq(remote.items, from + 1, from + k)
         response == [ number_of_total_results |-> n, results |-> page ]
     IN /\ IF from >= n THEN k = 0 ELSE k \in 1..(IF n - from < remote.limit THEN n - from ELSE remote.limit)
        /\ autopage' =
             [ autopage EXCEPT
                 !.output = IF @ = <<>>
                            THEN << [ number_of_total_results |-> response.number_of_total_results ] >>
                            ELSE @,
                 !.total = IF autopage.output = <<>>
                           THEN << response.number_of_total_results >> ELSE @,
                 !.offset = @ + Len(response.results),
                 !.stop = IF Len(response.results) # 0
                          THEN \E i \in DOMAIN response.results : Until(response.results[i])
                          ELSE TRUE,
                 !.results = @ \o Pushed(response.results),
                 !.requested = Append(@, [ offset |-> from,
                                           accumulated |-> Len(autopage.results),
                                           returned |-> Len(response.results) ]) ]
  /\ UNCHANGED <<now, apiVars, cacheVars, diskVars, catVars, remote, save>>

\* the loop is over: output (whose results is the array filled) is returned
AutopageReturn ==
  /\ autopage.pc = "loop"
  /\ ~(~autopage.stop /\ OffsetBelowTotal)
  /\ autopage' = [ autopage EXCEPT !.pc = IF autopage.output = <<>> THEN "thrown" ELSE "returned" ]
  /\ UNCHANGED <<now, apiVars, cacheVars, diskVars, catVars, remote, save>>

\* video.find: the last result when the predicate accepts it, <<>> for none
videoFind ==
  LET results == autopage.results
  IN IF Len(results) # 0 /\ results[Len(results)].match
     THEN << results[Len(results)] >> ELSE <<>>

----------------------------------------------------------------------------
\* Cache.loaded: an empty cache, or one entry kept from an earlier run
LoadedCaches ==
  { EmptyData,
    CachePutData(EmptyData, toURL("show", api_key).safe,
                 [ body |-> TRUE, status_code |-> 1, results |-> 0 ],
                 StartTime - 1) }

Init ==
  /\ now = StartTime
  /\ last_call = 0
  /\ calling = FALSE
  /\ req = [ r \in Reqs |-> IdleReq ]
  /\ issued = 0
  /\ lastStart = -1
  /\ minGap = rate_limit_ms
  /\ data \in LoadedCaches
  /\ flushOpts = <<>>
  /\ timers = {}
  /\ writes = {}
  /\ disk = IF data = EmptyData THEN <<>> ELSE <<data>>
  /\ writeLog = <<>>
  /\ puts = 0
  /\ firstPut = -1
  /\ rapid = TRUE
  /\ lastPut = <<>>
  /\ flushed = "no"
  /\ videos = <<>>
  /\ copy_year = FALSE
  /\ catalog = <<>>
  /\ anchorCommands = <<>>
  /\ anchors = <<>>
  /\ includedIDs = <<>>
  /\ options = NoOptions
  /\ failed = FALSE
  /\ save = NoSave
  /\ remote = [ items |-> <<>>, limit |-> 1 ]
  /\ autopage = NoAutopage

Next ==
  \/ \E r \in Reqs, b \in Bases : Issue(r, b)
  \/ \E r \in Reqs : AfterFirstCheck(r)
  \/ \E r \in Reqs : WakeSpin(r)
  \/ \E r \in Reqs : WakeDelay(r)
  \/ \E r \in Reqs : AfterSecondCheck(r)
  \/ \E r \in Reqs : \E d \in HttpResponses(req[r].url) : HttpDone(r, d)
  \/ \E r \in Reqs : HttpError(r)
  \/ \E r \in Reqs : AfterStore(r)
  \/ \E r \in Reqs : Release(r)
  \/ Tick

Spec == Init /\ [][Next]_vars

\* the time by which the waits of MaxIssued invocations, one after the
\* other, are over
LiveHorizon == MaxTime + MaxIssued * (rate_limit_ms + poll_ms)

\* the clock of a process whose timers always come due: it advances up to
\* MaxTime, and beyond it (up to LiveHorizon) while an invocation waits in a
\* wait() and no HTTP call is under way
TickOn ==
  /\ ~MicrotaskPending
  /\ ~WakeDue
  /\ \/ now < MaxTime
     \/ /\ \E r \in Reqs : req[r].pc \in {"spin", "delay"}
        /\ \A r \in Reqs : req[r].pc # "http"
        /\ now < LiveHorizon
  /\ now' = now + 1
  /\ UNCHANGED <<apiVars, cacheVars, diskVars>>
  /\ UNCHANGED <<catVars, pageVars, save>>

\* the requests of one command: a finite set of requests of one path (so
\* that a later one can be answered from the cache), issued into an empty
\* cache
MaxLiveIssued == 3

InitLive == Init /\ data = EmptyData

NextLive ==
  \/ \E r \in Reqs : issued < MaxLiveIssued /\ Issue(r, "video")
  \/ \E r \in Reqs : AfterFirstCheck(r)
  \/ \E r \in Reqs : WakeSpin(r)
  \/ \E r \in Reqs : WakeDelay(r)
  \/ \E r \in Reqs : AfterSecondCheck(r)
  \/ \E r \in Reqs : \E d \in HttpResponses(req[r].url) : HttpDone(r, d)
  \/ \E r \in Reqs : HttpError(r)
  \/ \E r \in Reqs : AfterStore(r)
  \/ \E r \in Reqs : Release(r)
  \/ TickOn

\* the event loop runs every continuation that is ready and every timer that
\* is due, every HTTP call settles (resolved or rejected), every cache
\* operation settles, and time passes
FairLive ==
  /\ WF_vars(TickOn)
  /\ \A r \in Reqs :
       /\ WF_vars(AfterFirstCheck(r))
       /\ WF_vars(WakeSpin(r))
       /\ WF_vars(WakeDelay(r))
       /\ WF_vars(AfterSecondCheck(r))
       /\ WF_vars((\E d \in HttpResponses(req[r].url) : HttpDone(r, d)) \/ HttpError(r))
       /\ WF_vars(AfterStore(r))
       /\ WF_vars(Release(r))

SpecLive == InitLive /\ [][NextLive]_vars /\ FairLive

\* Cache.load: flushData runs at once when the load evicted something
InitFlush ==
  /\ now = StartTime
  /\ last_call = 0
  /\ calling = FALSE
  /\ req = [ r \in Reqs |-> IdleReq ]
  /\ issued = 0
  /\ lastStart = -1
  /\ minGap = rate_limit_ms
  /\ data \in LoadedCaches
  /\ \/ flushOpts = <<>> /\ timers = {}
     \/ /\ flushOpts = FlushOptsAfter(<<>>, data)
        /\ timers = { TimerFor(<<>>, cache_flush_ms, StartTime) }
  /\ writes = {}
  /\ disk \in { <<>>, <<data>> }
  /\ writeLog = <<>>
  /\ puts = 0
  /\ firstPut = -1
  /\ rapid = TRUE
  /\ lastPut = <<>>
  /\ flushed = "no"
  /\ videos = <<>>
  /\ copy_year = FALSE
  /\ catalog = <<>>
  /\ anchorCommands = <<>>
  /\ anchors = <<>>
  /\ includedIDs = <<>>
  /\ options = NoOptions
  /\ failed = FALSE
  /\ save = NoSave
  /\ remote = [ items |-> <<>>, limit |-> 1 ]
  /\ autopage = NoAutopage

NextFlush ==
  \/ \E b \in Bases : Put(toURL(b, api_key).safe)
  \/ \E t \in timers : FlushTimer(t)
  \/ \E w \in writes : WriteExists(w)
  \/ \E w \in writes : WriteTemp(w)
  \/ \E w \in writes : WriteUnlink(w)
  \/ \E w \in writes : WriteRename(w)
  \/ Flush
  \/ Exit
  \/ Tick

SpecFlush == InitFlush /\ [][NextFlush]_vars

\* keys of the cache file of an earlier run
FileKeys == { <<"game">>, <<"show">>, <<"video">> }

\* storage times in the file: stale, exactly cache_duration_ms ago, fresh
FileDates ==
  { StartTime - cache_duration_ms - 1, StartTime - cache_duration_ms, StartTime - 1 }

\* the documents an earlier run can have written: records in time order,
\* one per key
CacheFiles ==
  UNION { { [ calls |-> [ i \in 1..n |-> [ path |-> k[i], date |-> d[i] ] ],
              responses |-> [ p \in { k[i] : i \in 1..n } |->
                  LET i == CHOOSE j \in 1..n : k[j] = p
                  IN [ response |-> [ body |-> TRUE, status_code |-> 1, results |-> 0 ],
                       date |-> d[i] ] ] ] :
              k \in { f \in [1..n -> FileKeys] :
                        \A i \in 1..n, j \in 1..n : i < j => f[i] # f[j] },
              d \in { f \in [1..n -> FileDates] :
                        \A i \in 1..n, j \in 1..n : i <= j => f[i] <= f[j] } } :
          n \in 0..Cardinality(FileKeys) }

\* the process as constructed, before Cache.load, with the file of an
\* earlier run or none
\* a process about to load its cache from one of the files
InitLoadOf(files) ==
  /\ now = StartTime
  /\ last_call = 0
  /\ calling = FALSE
  /\ req = [ r \in Reqs |-> IdleReq ]
  /\ issued = 0
  /\ lastStart = -1
  /\ minGap = rate_limit_ms
  /\ data = EmptyData
  /\ flushOpts = <<>>
  /\ timers = {}
  /\ writes = {}
  /\ disk \in files
  /\ writeLog = <<>>
  /\ puts = 0
  /\ firstPut = -1
  /\ rapid = TRUE
  /\ lastPut = <<>>
  /\ flushed = "loading"
  /\ videos = <<>>
  /\ copy_year = FALSE
  /\ catalog = <<>>
  /\ anchorCommands = <<>>
  /\ anchors = <<>>
  /\ includedIDs = <<>>
  /\ options = NoOptions
  /\ failed = FALSE
  /\ save = NoSave
  /\ remote = [ items |-> <<>>, limit |-> 1 ]
  /\ autopage = NoAutopage

InitLoad == InitLoadOf({ <<>> } \cup { <<doc>> : doc \in CacheFiles })

\* files that do not hold the document: unreadable, not JSON text, JSON
\* without calls, and documents that lack their responses
BrokenFiles ==
  { [ broken |-> how ] : how \in { "unreadable", "not JSON", "no calls" } }
    \cup { [ calls |-> doc.calls ] : doc \in CacheFiles }

InitLoadAny ==
  InitLoadOf({ <<>> } \cup { <<doc>> : doc \in CacheFiles \cup BrokenFiles })

NextLoad == Load

SpecLoadAny == InitLoadAny /\ [][NextLoad]_vars

SpecLoad == InitLoad /\ [][NextLoad]_vars

\* a process that starts without a cache file
InitCache == InitLoad /\ disk = <<>>

NextCache ==
  \/ Load
  \/ \E b \in Bases : Put(toURL(b, api_key).safe)
  \/ \E t \in timers : FlushTimer(t)
  \/ \E w \in writes : WriteExists(w)
  \/ \E w \in writes : WriteTemp(w)
  \/ \E w \in writes : WriteUnlink(w)
  \/ \E w \in writes : WriteRename(w)
  \/ Flush
  \/ Exit
  \/ TickCache

SpecCache == InitCache /\ [][NextCache]_vars

\* the process before any request: nothing cached, nothing scheduled
InitProcess ==
  /\ now = StartTime
  /\ last_call = 0
  /\ calling = FALSE
  /\ req = [ r \in Reqs |-> IdleReq ]
  /\ issued = 0
  /\ lastStart = -1
  /\ minGap = rate_limit_ms
  /\ data = EmptyData
  /\ flushOpts = <<>>
  /\ timers = {}
  /\ writes = {}
  /\ disk = <<>>
  /\ writeLog = <<>>
  /\ puts = 0
  /\ firstPut = -1
  /\ rapid = TRUE
  /\ lastPut = <<>>
  /\ flushed = "no"
  /\ catalog = <<>>
  /\ anchorCommands = <<>>
  /\ anchors = <<>>
  /\ includedIDs = <<>>
  /\ options = NoOptions
  /\ failed = FALSE
  /\ save = NoSave

\* any time-ordered list of videos, with or without --copy-year
InitCatalog ==
  /\ InitProcess
  /\ NoListing
  /\ VideoList(MaxVideos, Dates, Names, Associations)
  /\ copy_year \in BOOLEAN

NextCatalog == Create

SpecCatalog == InitCatalog /\ [][NextCatalog]_vars

\* shows whose videos differ in their game only
InitPreferred ==
  /\ InitProcess
  /\ NoListing
  /\ VideoList(MaxGameVideos, {362}, {{}}, Associations)
  /\ copy_year = FALSE

SpecPreferred == InitPreferred /\ [][NextCatalog]_vars

\* shows of up to MaxEpisodes plain videos, for the anchor commands
InitRange ==
  /\ InitProcess
  /\ NoListing
  /\ VideoList(MaxEpisodes, {362}, {{}}, {<<>>})
  /\ copy_year = FALSE

NextRange ==
  \/ Create
  \/ \E t \in AnchorTypes, e \in 1..(Len(videos) + 1) : AnchorCommand(t, e)
  \/ Compose

SpecRange == InitRange /\ [][NextRange]_vars

MaxAnchorVideos == 3

\* associations of a video: none, or a game with a number in its name
AnchorAssociations ==
  { <<>>, << [ api_detail_url |-> <<"game", 7>>, name |-> "A7" ] >> }

\* shows of up to MaxAnchorVideos videos of two years, each of one game or
\* of none
InitAnchor ==
  /\ InitProcess
  /\ NoListing
  /\ VideoList(MaxAnchorVideos, { 362, 366 }, {{}}, AnchorAssociations)
  /\ copy_year = FALSE

NextAnchor ==
  \/ Create
  \/ \E t \in AnchorTypes, st \in { "years", "games" }, o \in AnchorOpts :
       AnchorIdentify(t, st, o)
  \/ Compose

SpecAnchor == InitAnchor /\ [][NextAnchor]_vars

MaxSeasonVideos == 3

\* associations of a video: none, or a game whose name holds a season's number
SeasonAssociations ==
  { <<>>, << [ api_detail_url |-> <<"game", 1>>, name |-> "A1" ] >> }

\* commands that name an episode of a season: --season <n> --episode <e>,
\* or an identifier S<n>E<e>
EpisodeOpts ==
  { [ identifier |-> <<>>, episode |-> << e >>, season |-> << SeasonNumber(n) >> ] :
      e \in 1..MaxSeasonVideos, n \in { 1, 2, 2020 } }
  \cup
  { [ identifier |-> << [ s |-> << n >>, e |-> << e >> ] >>,
      episode |-> <<>>, season |-> <<>> ] :
      e \in 1..MaxSeasonVideos, n \in { 1, 2, 2020 } }

\* shows of up to MaxSeasonVideos videos of two years, each of the game A1
\* or of none
InitEpisode ==
  /\ InitProcess
  /\ NoListing
  /\ VideoList(MaxSeasonVideos, { 362, 366 }, {{}}, SeasonAssociations)
  /\ copy_year = FALSE

NextEpisode ==
  \/ Create
  \/ \E t \in AnchorTypes, st \in { "years", "games" }, o \in EpisodeOpts :
       AnchorIdentify(t, st, o)

SpecEpisode == InitEpisode /\ [][NextEpisode]_vars

MaxDownloadVideos == 3

\* the main command's options: --season by number or by a letter of a game's
\* name, --episode, --season-type
DownloadOptions ==
  { [ season |-> sn, episode |-> e, season_type |-> st ] :
      sn \in { <<>>, << SeasonNumber(1) >>, << SeasonNumber(2) >>, << SeasonText("a") >> },
      e \in { <<>>, <<1>>, <<2>> },
      st \in { <<>>, << "games" >> } }

\* a download of a show of up to MaxDownloadVideos videos of two years, each
\* of one game or of none
InitDownload ==
  /\ now = StartTime
  /\ last_call = 0
  /\ calling = FALSE
  /\ req = [ r \in Reqs |-> IdleReq ]
  /\ issued = 0
  /\ lastStart = -1
  /\ minGap = rate_limit_ms
  /\ data = EmptyData
  /\ flushOpts = <<>>
  /\ timers = {}
  /\ writes = {}
  /\ disk = <<>>
  /\ writeLog = <<>>
  /\ puts = 0
  /\ firstPut = -1
  /\ rapid = TRUE
  /\ lastPut = <<>>
  /\ flushed = "no"
  /\ catalog = <<>>
  /\ anchorCommands = <<>>
  /\ anchors = <<>>
  /\ includedIDs = <<>>
  /\ options \in DownloadOptions
  /\ failed = FALSE
  /\ save = NoSave
  /\ NoListing
  /\ VideoList(MaxDownloadVideos, { 362, 366 }, {{}}, AnchorAssociations)
  /\ copy_year = FALSE

NextDownload ==
  \/ Main
  \/ \E t \in AnchorTypes, e \in 1..MaxDownloadVideos : AnchorProcess(t, e)
  \/ Compose

SpecDownload == InitDownload /\ [][NextDownload]_vars

\* before a downloadUrl call
InitSave ==
  /\ InitProcess
  /\ NoListing
  /\ videos = <<>>
  /\ copy_year = FALSE

NextSave ==
  \/ \E replace \in BOOLEAN, backup \in BOOLEAN, direct \in BOOLEAN,
        total \in 1..MaxChunks, existing \in BOOLEAN :
       SaveCall(replace, backup, direct, total, existing)
  \/ SaveExists
  \/ \E ok \in BOOLEAN : SaveBackup(ok)
  \/ SaveOpen
  \/ SaveChunk
  \/ SaveStreamError
  \/ \E ok \in BOOLEAN : SaveRename(ok)
  \/ \E ok \in BOOLEAN : SaveCleanup(ok)

SpecSave == InitSave /\ [][NextSave]_vars

MaxBoundaryVideos == 5

\* 2019-12-02, 2019-12-29, 2020-01-02, 2020-01-16, 2020-12-01, 2020-12-20,
\* 2021-01-05, 2021-12-26
BoundaryDates == { 335, 362, 366, 380, 700, 719, 735, 1090 }

\* 2019-12-29, 2019-12-30, 2020-01-02, 2020-01-03
ScenarioDates == << 362, 363, 366, 367 >>

\* 2020-01-21, 2020-06-30, 2020-12-01, 2021-01-05
LaterDates == { 385, 547, 700, 735 }

\* shows of plainly named videos without associations: any short list, with
\* or without --copy-year, or (without it) the four videos around the turn
\* of the year followed by ten later ones
InitBoundary ==
  /\ InitProcess
  /\ NoListing
  /\ \/ /\ VideoList(MaxBoundaryVideos, BoundaryDates, {{}}, {<<>>})
        /\ copy_year \in BOOLEAN
     \/ \E later \in [ 5..14 -> LaterDates ] :
          /\ copy_year = FALSE
          /\ \A i \in 5..13 : later[i] <= later[i + 1]
          /\ videos = [ i \in 1..14 |->
                          VideoAt(i, IF i <= 4 THEN ScenarioDates[i] ELSE later[i], {}, <<>>) ]

SpecBoundary == InitBoundary /\ [][NextCatalog]_vars

\* one autopageList call, with or without a predicate, against a remote
\* of up to MaxItems items served in pages of up to MaxLimit
InitPage ==
  /\ InitProcess
  /\ videos = <<>>
  /\ copy_year = FALSE
  /\ \E n \in 0..MaxItems, l \in 1..MaxLimit :
       \E m \in [ 1..n -> BOOLEAN ] :
         remote = [ items |-> RemoteItems(n, m), limit |-> l ]
  /\ \E u \in BOOLEAN, o \in 0..1 :
       autopage = [ NoAutopage EXCEPT !.pc = "loop", !.until = u, !.start = o, !.offset = o ]

NextPage ==
  \/ \E k \in 0..MaxLimit : AutopagePass(k)
  \/ AutopageReturn

\* the awaited list() settles and the loop goes on: the call is never
\* suspended for ever
SpecPage == InitPage /\ [][NextPage]_vars /\ WF_vars(NextPage)

----------------------------------------------------------------------------
(* Claims about the API client, checked under Spec *)

InFlight == { r \in Reqs : req[r].pc = "http" }

\* C1: under any interleaving of concurrent requests (cache hits and failures
\* included) at most one outbound HTTP GET is in flight at any time.
C1_AtMostOneInFlight == Cardinality(InFlight) <= 1

\* C2: the start times of any two successive outbound HTTP calls are at least
\* rate_limit_ms apart.
C2_StartsSpaced == minGap >= rate_limit_ms

\* C8: of the invocations with the same signature that run concurrently, with
\* every response a success and the TTL not elapsed, only one calls httpieGet.
C8_SingleFetch ==
  \A r1, r2 \in Reqs :
    ( /\ r1 # r2
      /\ r1 \in req[r2].overlap
      /\ req[r1].url.safe = req[r2].url.safe
      /\ req[r1].pc # "failed" /\ req[r2].pc # "failed"
      /\ now - StartTime < cache_duration_ms )
    => ~(req[r1].fetched /\ req[r2].fetched)

Success(d) == d.body = TRUE /\ d.status_code = 1

\* C9: a response without a body or with a non-success status makes the
\* request fail and is never written to the cache; what the cache holds are
\* validated responses, each under a credential-free signature.
C9_OnlyValidCached ==
  /\ \A r \in Reqs :
       (req[r].fetched /\ req[r].response # <<>> /\ ~Success(req[r].response[1]))
         => req[r].pc = "failed"
  /\ \A p \in DOMAIN data.responses :
       /\ Success(data.responses[p].response)
       /\ p \in { <<b>> : b \in Bases }
  /\ \A i \in DOMAIN data.calls : data.calls[i].path \in { <<b>> : b \in Bases }

\* a request has failed on an error envelope, and a fetched response is cached
C9_Witness ==
  /\ \E r \in Reqs :
       /\ req[r].pc = "failed" /\ req[r].response # <<>>
       /\ req[r].response[1].status_code = 100
       /\ req[r].url.safe \notin DOMAIN data.responses
  /\ \E p \in DOMAIN data.responses : data.responses[p].date >= StartTime

Stale(p) == p \in DOMAIN data.responses /\ data.responses[p].date < now - cache_duration_ms

\* C10: get(key) returns absent for every entry stored earlier than now - TTL,
\* whether or not an eviction has removed the entry since.
C10_StaleIsAbsent ==
  /\ \A r \in Reqs :
       (req[r].pc \in {"checked1", "checked2"} /\ Stale(req[r].url.safe))
         => req[r].cachedResponse = <<>>
  /\ \A p \in DOMAIN data.responses : Stale(p) => CacheGet(data, p, now) = <<>>

\* a get has just run on an entry that is stale and not evicted
C10_Witness ==
  \E r \in Reqs :
    /\ req[r].pc \in {"checked1", "checked2"}
    /\ Stale(req[r].url.safe)
    /\ req[r].cachedResponse = <<>>

----------------------------------------------------------------------------
(* Claims about the debounced flush, checked under SpecFlush *)

Quiescent == timers = {} /\ writes = {} /\ flushed # "exited"

WritesSincePut == { i \in DOMAIN writeLog : writeLog[i].puts >= 1 }

\* C3: when k >= 1 puts all run before the flush delay of the first is over
\* and every timer has fired, exactly one disk write has been made since the
\* first put, and its document is the cache state after the k-th put.
C3_OneWriteOfLastState ==
  (puts >= 1 /\ rapid /\ Quiescent)
    => /\ Cardinality(WritesSincePut) = 1
       /\ \A i \in WritesSincePut : writeLog[i].doc = data

\* three rapid puts have been flushed
C3_Witness ==
  /\ puts = 3 /\ rapid /\ Quiescent
  /\ Cardinality(WritesSincePut) = 1
  /\ Len(data.calls) >= 2

\* C4: when flush() has completed, the file holds the cache state after the
\* most recent put.
C4_FlushPersists ==
  (flushed = "done" /\ puts >= 1) => disk = << data >>

----------------------------------------------------------------------------
(* Claims about the catalog, checked under SpecCatalog and SpecPreferred *)

ItemIds == { videos[i].id : i \in DOMAIN videos }

PlacesOf(seasons, id) ==
  { p \in UNION { { <<s, e>> : e \in DOMAIN seasons[s].episodes } : s \in DOMAIN seasons } :
      seasons[p[1]].episodes[p[2]].id = id }

SeasonIds(seasons) ==
  UNION { { seasons[s].episodes[e].id : e \in DOMAIN seasons[s].episodes } :
          s \in DOMAIN seasons }

\* C5: in every catalog built from a time-ordered item list, with or without
\* copy-year, each item is at exactly one place of the year partition and at
\* exactly one place of the game partition, and the items of each partition's
\* seasons together are the full item set.
C5_PartitionComplete ==
  catalog # <<>> =>
    \A type \in { "years", "games" } :
      /\ SeasonIds(catalog[1].seasons[type]) = ItemIds
      /\ \A id \in ItemIds : Cardinality(PlacesOf(catalog[1].seasons[type], id)) = 1

----------------------------------------------------------------------------
(* Claims about anchor composition, checked under SpecRange *)

Positions(lo, hi) == { VideoId(p) : p \in lo..hi }

\* the command line is exactly the two anchors t1 and t2, in either order
Pair(t1, t2) ==
  /\ Len(anchorCommands) = 2
  /\ { anchorCommands[1].anchorType, anchorCommands[2].anchorType } = { t1, t2 }

EpisodeOf(t) ==
  IF anchorCommands[1].anchorType = t
  THEN anchorCommands[1].episode ELSE anchorCommands[2].episode

\* C6: on a flat catalog of n items, from(e=a) with through(e=b) leaves
\* exactly the items at positions a..b, and after(e=a) with to(e=b) leaves
\* exactly the items at positions a+1..b-1.
C6_AnchorRange ==
  includedIDs # <<>> =>
    /\ Pair("from", "through") =>
         includedIDs[1] = Positions(EpisodeOf("from"), EpisodeOf("through"))
    /\ Pair("after", "to") =>
         includedIDs[1] = Positions(EpisodeOf("after") + 1, EpisodeOf("to") - 1)

\* after(e=5) with to(e=10) on 20 items has left the items 6..9
C6_Witness ==
  /\ Len(videos) = 20
  /\ includedIDs # <<>>
  /\ Pair("after", "to")
  /\ EpisodeOf("after") = 5 /\ EpisodeOf("to") = 10
  /\ includedIDs[1] = Positions(6, 9)

\* the positions the k-th anchor command leaves valid by itself
OwnPositions(k) ==
  LET t == anchorCommands[k].anchorType
      e == anchorCommands[k].episode
  IN IF t = "from" THEN e..Len(videos)
     ELSE IF t = "after" THEN (e + 1)..Len(videos)
     ELSE IF t = "to" THEN 1..(e - 1)
     ELSE 1..e

\* C24: the included set is the intersection of every anchor's own set,
\* starting from the full item-id set; when two anchors are mutually
\* exclusive (e.g. a 'to' anchor positioned at or before a 'from' anchor) the
\* result is the empty set and the composition completes without an error.
C24_Intersection ==
  /\ ~failed
  /\ includedIDs # <<>> =>
       /\ includedIDs[1] =
            { VideoId(p) : p \in { q \in DOMAIN videos :
                                     \A k \in DOMAIN anchorCommands : q \in OwnPositions(k) } }
       /\ (Pair("from", "to") /\ EpisodeOf("to") <= EpisodeOf("from")) => includedIDs[1] = {}

\* `to --episode 3` with `from --episode 5` on 8 videos: nothing is included
C24_Witness ==
  /\ Len(videos) = 8
  /\ includedIDs = << {} >>
  /\ ~failed
  /\ Pair("from", "to")
  /\ EpisodeOf("to") = 3 /\ EpisodeOf("from") = 5

----------------------------------------------------------------------------
(* Claims about the cache data, checked under SpecLoad and SpecCache *)

Kept(calls, t) == SelectSeq(calls, LAMBDA call : call.date >= t - cache_duration_ms)

\* C11: an eviction run on a time-ordered call list keeps exactly the
\* call/response pairs stored at or after now - TTL (one stored exactly TTL
\* ago included) and removes the others; when none is kept, the call list and
\* the response map are both empty.
C11_EvictsExactlyOlder ==
  (flushed = "no" /\ disk # <<>>) =>
    LET doc == disk[1]
        kept == Kept(doc.calls, now)
    IN /\ data.calls = kept
       /\ DOMAIN data.responses = { kept[i].path : i \in DOMAIN kept }
       /\ \A p \in DOMAIN data.responses : data.responses[p] = doc.responses[p]
       /\ (kept = <<>>) => data = EmptyData

\* the load has evicted one stale record of three and kept the one stored
\* exactly TTL ago and the fresh one
C11_Witness ==
  /\ flushed = "no" /\ disk # <<>>
  /\ Len(disk[1].calls) = 3
  /\ disk[1].calls[1].date < now - cache_duration_ms
  /\ Len(data.calls) = 2
  /\ data.calls[1].date = now - cache_duration_ms
  /\ data.calls[2].date > now - cache_duration_ms

\* C14: after any sequence of puts, with the evictions they run, on a cache
\* that started empty: every key has at most one call record, the keys of the
\* call list are the keys of the response map, and get(key) within the TTL of
\* the most recent put for that key returns the response of that put.
C14_OneRecordPerKey ==
  /\ \A i \in DOMAIN data.calls, j \in DOMAIN data.calls :
       data.calls[i].path = data.calls[j].path => i = j
  /\ { data.calls[i].path : i \in DOMAIN data.calls } = DOMAIN data.responses
  /\ \A p \in DOMAIN lastPut :
       lastPut[p].date > now - cache_duration_ms
         => CacheGet(data, p, now) = << lastPut[p].response >>

\* three puts on a cache that started empty: the third put has evicted the
\* record of another key, and its own response is the one get returns
C14_Witness ==
  /\ puts = 3
  /\ \E p \in DOMAIN lastPut, q \in DOMAIN lastPut :
       /\ p # q
       /\ q \notin DOMAIN data.responses
       /\ lastPut[p].response.results = 3
       /\ CacheGet(data, p, now) = << lastPut[p].response >>
       /\ Len(data.calls) = 1

----------------------------------------------------------------------------
(* Further claims about the debounced flush, checked under SpecFlush *)

\* C12: in every interleaving of puts and timers, a delayed write whose
\* counter has been superseded does nothing to the disk, and every write that
\* starts is handed the snapshot of the most recent put, which is the cache
\* data as it stands.
C12_OnlyLatestSnapshotWritten ==
  [][ /\ \A t \in timers :
           ( /\ timers' = timers \ {t}
             /\ flushed' # "exited"
             /\ t.counter # flushOpts[1].counter )
             => /\ writes' = writes
                /\ writeLog' = writeLog
                /\ disk' = disk
      /\ Len(writeLog') > Len(writeLog)
           => /\ writeLog'[Len(writeLog')].doc = data
              /\ \A p \in DOMAIN lastPut :
                   lastPut[p].date > now - cache_duration_ms
                     => /\ p \in DOMAIN writeLog'[Len(writeLog')].doc.responses
                        /\ writeLog'[Len(writeLog')].doc.responses[p] = lastPut[p]
    ]_vars

\* two puts; the timer of the first has fired superseded and written
\* nothing, the timer of the second has started the only write
C12_Witness ==
  /\ puts = 2
  /\ timers = {} /\ flushed = "no"
  /\ flushOpts[1].counter >= 1 /\ ~flushOpts[1].pending
  /\ Len(writeLog) = 1
  /\ writeLog[1].puts = 2
  /\ writeLog[1].doc = data

\* C13: at every step of a disk write that found the cache file in place, the
\* target path holds a complete document (the previous or the new one); it is
\* never missing.
C13_TargetNeverMissing ==
  \A w \in writes : (w.fileExists /\ w.stage \in { "unlink", "rename" }) => disk # <<>>

----------------------------------------------------------------------------
(* Claims about the paged listing, checked under SpecPage *)

Finished == autopage.pc \in {"returned", "thrown"}

\* the places of the remote's items the predicate accepts, among those the
\* call can reach
Hits == { i \in DOMAIN remote.items : i > autopage.start /\ remote.items[i].match }

PagesAll == autopage.pc # "none" /\ autopage.start = 0 /\ (~autopage.until \/ Hits = {})

C15_Safe ==
  PagesAll =>
    /\ autopage.pc # "thrown"
    /\ autopage.pc = "returned" => autopage.results = remote.items
    /\ \A i \in DOMAIN autopage.requested :
         /\ autopage.requested[i].offset = autopage.requested[i].accumulated
         /\ i > 1 => /\ autopage.requested[i].offset < Len(remote.items)
                     /\ autopage.requested[i - 1].returned # 0

\* C15: against a remote that holds N items in a fixed order, reports total N
\* and returns at most L >= 1 items per page, autopageList starting at offset
\* 0 terminates and returns exactly those N items in order, each once; every
\* request's offset equals the number of items accumulated so far, and no
\* request is issued once the reported total is reached or a page came back
\* empty.
C15_PagesEverythingOnce == []C15_Safe /\ (PagesAll ~> Finished)

\* a call without predicate that needed three pages, the last one short
C15_Witness ==
  /\ PagesAll /\ ~autopage.until
  /\ autopage.pc = "returned"
  /\ Len(remote.items) = MaxItems
  /\ Len(autopage.requested) = 3
  /\ autopage.requested[3].returned = 1

\* C16: when autopageList is given a predicate and some item satisfies it,
\* the result is returned, not thrown, and holds exactly the items in remote
\* order up to and including the first item satisfying the predicate (the
\* last accumulated item is that first match), and no page after the one
\* holding it is requested.
C16_StopsAtFirstMatch ==
  (autopage.pc # "none" /\ autopage.until /\ Hits # {}) =>
    LET first == findIndex(Hits)
    IN /\ autopage.pc # "thrown"
       /\ autopage.pc = "returned" =>
            /\ autopage.results = SubSeq(remote.items, autopage.start + 1, first)
            /\ videoFind = << remote.items[first] >>
       /\ \A i \in DOMAIN autopage.requested : autopage.requested[i].offset < first

\* the first match came in a second page, with an item behind it in that page
C16_Witness ==
  /\ autopage.until /\ Hits # {}
  /\ autopage.pc = "returned"
  /\ Len(autopage.requested) = 2
  /\ autopage.offset > autopage.start + Len(autopage.results)

----------------------------------------------------------------------------
(* Claims about the year-split correction, checked under SpecBoundary *)

\* the year seasons before the correction
Split == YearSeasons(videos, copy_year, Len(videos))

\* C17: applying the correction pass a second time to a year partition that
\* the pass has already corrected changes nothing: no item moves between
\* seasons.
C17_CorrectionIdempotent ==
  (catalog # <<>> /\ ~copy_year) =>
    CorrectYears(catalog[1].seasons.years, 2) = catalog[1].seasons.years

\* a show of three year seasons, the second and the third of which both
\* gave their first video to the season before
C17_Witness ==
  /\ catalog # <<>> /\ ~copy_year
  /\ Len(Split) = 3
  /\ \A s \in 1..2 :
       Len(catalog[1].seasons.years[s].episodes) = 2 /\ Len(Split[s + 1].episodes) = 2

\* the name of the year season that holds the i-th video
YearSeasonOf(i) ==
  LET years == catalog[1].seasons.years
      s == CHOOSE n \in DOMAIN years : PlacesOf(<< years[n] >>, videos[i].id) # {}
  IN years[s].name

\* the four videos around the turn of the year, followed by ten more
Scenario ==
  /\ catalog # <<>> /\ ~copy_year
  /\ Len(videos) = 14
  /\ \A i \in 1..4 : videos[i].publish_date = ScenarioDates[i]

\* the ten are dated up to 2020-06-30
ThroughMid2020 == Scenario /\ videos[14].publish_date <= 547

\* C18 as claimed: with the correction enabled, a catalog built from items
\* dated 2019-12-29, 2019-12-30, 2020-01-02, 2020-01-03 followed by ten more
\* dated through mid-2020 places the 2020-01-02 and 2020-01-03 items in the
\* 2019 season rather than in a 2020 season.
C18_ScenarioInPreviousYear ==
  ThroughMid2020 => (YearSeasonOf(3) = "2019" /\ YearSeasonOf(4) = "2019")

\* C18 as amended: with the ten further items dated through mid-2020 no gap
\* exceeds 10.5 months and the 2020-01-02 and 2020-01-03 items stay in the
\* 2020 season; they are placed in the 2019 season when the item after
\* 2020-01-03 is dated in 2020 and more than 10.5 months later.
C18_ScenarioNeedsGap ==
  Scenario =>
    /\ ThroughMid2020 => (YearSeasonOf(3) = "2020" /\ YearSeasonOf(4) = "2020")
    /\ ( /\ YearOf(videos[5].publish_date) = "2020"
         /\ 2 * (videos[5].publish_date - videos[4].publish_date) > month * 21 )
       => (YearSeasonOf(3) = "2019" /\ YearSeasonOf(4) = "2019")

\* the ten further items start on 2020-12-01 and the season of 2019 ends
\* with the two January videos
C18_Witness ==
  /\ Scenario
  /\ videos[5].publish_date = 700
  /\ YearSeasonOf(4) = "2019"
  /\ Len(catalog[1].seasons.years[1].episodes) = 4

----------------------------------------------------------------------------
(* Claims about the anchors of one command, checked under SpecAnchor *)

Identified == anchors # <<>> /\ anchors[1] # <<>>

\* C19: every AnchorResult carries the inclusivity and direction fixed by its
\* keyword: from = (inclusive, forward), after = (exclusive, forward),
\* to = (exclusive, backward), through = (inclusive, backward), whatever form
\* of specifier identified the episode.
C19_KeywordFixesBoundary ==
  Identified =>
    LET anchorType == anchorCommands[1].anchorType
        a == anchors[1][1]
    IN /\ a.inclusive = (anchorType \in { "from", "through" })
       /\ a.direction = (IF anchorType \in { "from", "after" } THEN "forward" ELSE "backward")

\* `to S1E2` on a season of two or more videos: exclusive and backward
C19_Witness ==
  /\ Identified
  /\ anchorCommands[1].anchorType = "to"
  /\ anchorCommands[1].opts.identifier = << [ s |-> <<1>>, e |-> <<2>> ] >>
  /\ anchors[1][1].structure = "season"
  /\ ~anchors[1][1].inclusive /\ anchors[1][1].direction = "backward"

\* the command names a season and no episode: `--season <season>` alone, or
\* an identifier such as S04
SeasonOnly ==
  LET opts == anchorCommands[1].opts
  IN /\ Identified
     /\ opts.episode = <<>>
     /\ \/ opts.identifier = <<>> /\ opts.season # <<>>
        \/ opts.identifier # <<>> /\ opts.identifier[1].e = <<>> /\ opts.identifier[1].s # <<>>

\* the season the command names
NamedSeason ==
  LET opts == anchorCommands[1].opts
      season == IF opts.identifier = <<>> THEN opts.season[1]
                ELSE SeasonNumber(opts.identifier[1].s[1])
      reference == findSeason(catalog[1], season, anchorCommands[1].seasonType)[1]
  IN catalog[1].seasons[reference.seasonType][reference.seasonNumber]

\* C20 as claimed: for a season-only anchor (identifier form S04, or a season
\* reference alone), the resolved episode is the season's first item when
\* the anchor's direction is forward (from, after) and the season's last
\* item when its direction is backward (to, through).
C20_OutwardByDirection ==
  SeasonOnly =>
    LET episodes == NamedSeason.episodes
    IN anchors[1][1].episode.video.id =
         episodes[IF anchors[1][1].direction = "forward" THEN 1 ELSE Len(episodes)].id

\* C20 as amended: for a season-only anchor the resolved episode is the
\* season's first item for from and to and its last item for after and
\* through: the whole season is inside an inclusive range and outside an
\* exclusive one.
C20_OuterBoundary ==
  SeasonOnly =>
    LET episodes == NamedSeason.episodes
        anchorType == anchorCommands[1].anchorType
    IN anchors[1][1].episode.video.id =
         episodes[IF anchorType \in { "from", "to" } THEN 1 ELSE Len(episodes)].id

\* `after S1` where the first season has more than one video: the anchor is
\* the season's last video
C20_Witness ==
  /\ SeasonOnly
  /\ anchorCommands[1].anchorType = "after"
  /\ anchorCommands[1].opts.identifier = << [ s |-> <<1>>, e |-> <<>> ] >>
  /\ Len(NamedSeason.episodes) > 1
  /\ anchors[1][1].episode.seasonEpisodeNumber = Len(NamedSeason.episodes)

\* what findSeason answers for the season the command names
NamedSeasonNumber ==
  LET opts == anchorCommands[1].opts
      season == IF opts.identifier = <<>> THEN opts.season[1]
                ELSE SeasonNumber(opts.identifier[1].s[1])
  IN findSeason(catalog[1], season, anchorCommands[1].seasonType)[1]

\* the ids of the seasons lo..hi of the partition the named season is in
WholeSeasons(lo, hi) ==
  LET seasons == catalog[1].seasons[NamedSeasonNumber.seasonType]
  IN SeasonIds([ s \in 1..(hi - lo + 1) |-> seasons[lo + s - 1] ])

\* C21: a season-only anchor bounds the range at whole-season granularity:
\* 'from S' includes every episode of season S and of all later seasons,
\* 'after S' only episodes of seasons after S, 'through S' every episode of S
\* and of all earlier seasons, and 'to S' only episodes of seasons before S.
C21_WholeSeasons ==
  SeasonOnly =>
    /\ ~failed
    /\ includedIDs # <<>> =>
         LET anchorType == anchorCommands[1].anchorType
             S == NamedSeasonNumber.seasonNumber
             last == NamedSeasonNumber.seasonCount
         IN includedIDs[1] =
              IF anchorType = "from" THEN WholeSeasons(S, last)
              ELSE IF anchorType = "after" THEN WholeSeasons(S + 1, last)
              ELSE IF anchorType = "through" THEN WholeSeasons(1, S)
              ELSE WholeSeasons(1, S - 1)

\* the season reference of the command, <<>> for none: the season marker of
\* the identifier, else --season
CommandSeason ==
  LET opts == anchorCommands[1].opts
  IN IF opts.identifier # <<>> /\ opts.identifier[1].s # <<>>
     THEN << SeasonNumber(opts.identifier[1].s[1]) >>
     ELSE opts.season

\* the first season of a partition whose name contains the text, 0 for none
FirstNamed(seasons, season) ==
  findIndex({ n \in DOMAIN seasons : seasonMatch(seasons[n].name, season) })

\* C22: a numeric season reference n resolves to the n-th season (1-based)
\* of the requested partition kind if it exists; otherwise to the first year
\* season whose name contains the text; otherwise to the first game season
\* whose name contains the text; otherwise resolution fails. The returned
\* reference records the partition kind in which the season was found.
C22_NumericSeasonResolution ==
  (anchors # <<>> /\ CommandSeason # <<>> /\ CommandSeason[1].isNumber) =>
    LET season == CommandSeason[1]
        requested == anchorCommands[1].seasonType
        seasons == catalog[1].seasons
        byYear == FirstNamed(seasons.years, season)
        byGame == FirstNamed(seasons.games, season)
    IN IF anchors[1] = <<>> THEN TRUE
       ELSE LET reference == anchors[1][1].episode
                found == << reference.seasonType, reference.seasonNumber >>
            IN IF season.number \in DOMAIN seasons[requested]
               THEN found = << requested, season.number >>
               ELSE IF byYear # 0 THEN found = << "years", byYear >>
               ELSE byGame # 0 /\ found = << "games", byGame >>

\* C23: a compound identifier with season marker s and episode marker e
\* (e.g. S02E17), against a catalog whose requested partition has a season s
\* with at least e episodes, resolves to the e-th episode of that season with
\* structure = season; an identifier with only an episode marker and no
\* season in context resolves with structure = flat.
C23_CompoundIdentifier ==
  (anchors # <<>> /\ anchorCommands[1].opts.identifier # <<>>
                 /\ anchorCommands[1].opts.episode = <<>>
                 /\ anchorCommands[1].opts.identifier[1].e # <<>>) =>
    LET opts == anchorCommands[1].opts
        sn == opts.identifier[1].s
        en == opts.identifier[1].e[1]
        seasons == catalog[1].seasons[anchorCommands[1].seasonType]
    IN /\ (sn # <<>> /\ sn[1] \in DOMAIN seasons /\ en <= Len(seasons[sn[1]].episodes)) =>
            /\ anchors[1] # <<>>
            /\ anchors[1][1].episode.video.id = seasons[sn[1]].episodes[en].id
            /\ anchors[1][1].structure = "season"
       /\ (sn = <<>> /\ opts.season = <<>> /\ en <= Len(catalog[1].episodes)) =>
            /\ anchors[1] # <<>>
            /\ anchors[1][1].episode.video.id = catalog[1].episodes[en].id
            /\ anchors[1][1].structure = "flat"

\* `through S2E2` on a show whose second season is not its first videos
C23_Witness ==
  /\ Identified
  /\ anchorCommands[1].opts =
       [ identifier |-> << [ s |-> <<2>>, e |-> <<2>> ] >>, episode |-> <<>>, season |-> <<>> ]
  /\ anchorCommands[1].seasonType = "years"
  /\ anchors[1][1].structure = "season"
  /\ anchors[1][1].episode.seasonNumber = 2
  /\ anchors[1][1].episode.seasonEpisodeNumber = 2
  /\ anchors[1][1].episode.showEpisodeNumber = 3


\* the season the main command's --season names, <<>> for none: by number
\* the season of that number of the partition in effect, else the first year
\* season, else the first game season, whose name contains the text
MainSeason ==
  LET seasons == catalog[1].seasons
      season == options.season[1]
      inEffect == seasons[seasonTypeOf(catalog[1], options)]
      byYear == FirstNamed(seasons.years, season)
      byGame == FirstNamed(seasons.games, season)
  IN IF season.isNumber /\ season.number \in DOMAIN inEffect
     THEN << inEffect[season.number] >>
     ELSE IF season.isNumber /\ byYear # 0 THEN << seasons.years[byYear] >>
     ELSE IF byGame # 0 THEN << seasons.games[byGame] >>
     ELSE <<>>

\* the ids of the episodes lo..hi of the main season
MainSeasonIds(lo, hi) ==
  { MainSeason[1].episodes[e].id : e \in { x \in lo..hi : x \in DOMAIN MainSeason[1].episodes } }

\* C25: a download given a main season S together with the anchors
\* 'from --episode a' and 'to --episode b' selects exactly episodes a..b-1 of
\* season S and nothing from any other season, whether S is given by number
\* or by name.
C25_SeasonEpisodeRange ==
  (/\ catalog # <<>>
   /\ options.season # <<>> /\ options.episode = <<>>
   /\ Pair("from", "to")
   /\ MainSeason # <<>>
   /\ EpisodeOf("from") \in DOMAIN MainSeason[1].episodes
   /\ EpisodeOf("to") \in DOMAIN MainSeason[1].episodes) =>
    /\ ~Thrown /\ ~failed
    /\ includedIDs # <<>> =>
         includedIDs[1] = MainSeasonIds(EpisodeOf("from"), EpisodeOf("to") - 1)

\* C26: a download given a show and --episode N (with or without --season S,
\* and no anchors) selects exactly one video: the N-th episode of the show,
\* or the N-th episode of season S when a season is given.
C26_SingleEpisode ==
  (/\ catalog # <<>>
   /\ options.episode # <<>>
   /\ IF options.season = <<>> THEN options.episode[1] \in DOMAIN catalog[1].episodes
      ELSE MainSeason # <<>> /\ options.episode[1] \in DOMAIN MainSeason[1].episodes) =>
    /\ ~Thrown /\ ~failed
    /\ includedIDs # <<>> =>
         includedIDs[1] =
           IF options.season = <<>> THEN { catalog[1].episodes[options.episode[1]].id }
           ELSE MainSeasonIds(options.episode[1], options.episode[1])


\* the call replaces an existing destination file, not in direct mode
Replacing ==
  /\ save.pc \notin { "none", "start" }
  /\ ~save.direct
  /\ save.backupFilename \/ (save.pc = "backup" /\ save.files["filename"] # <<>>)

\* the file at the path is there and completely written
Whole(path) ==
  /\ save.files[path] # <<>>
  /\ save.files[path][1].content = "new" => save.files[path][1].size = save.total

NoDocument ==
  disk = <<>> \/ "broken" \in DOMAIN disk[1] \/ "responses" \notin DOMAIN disk[1]

\* C28: loading a cache whose on-disk file is missing, unreadable or not
\* parseable as the expected document never fails: the cache becomes ready
\* with an empty call list and an empty response map.
C28_BrokenFileLoadsEmpty ==
  (flushed # "loading" /\ NoDocument) => data = EmptyData


\* the split points of the byYear season s (s > 1): the numbers e >= 1 of
\* items, counted from 0, such that the item at e-1 is less than 30 days
\* after the previous season's last item and the item at e more than
\* 10.5 x 30 days after the item at e-1
SplitPoints(s) ==
  LET previous == Split[s - 1].episodes
      last == previous[Len(previous)].publish_date
      items == Split[s].episodes
  IN { e \in 1..(Len(items) - 1) :
         /\ items[e].publish_date - last < 30
         /\ 2 * (items[e + 1].publish_date - items[e].publish_date) > 21 * 30 }

\* the number of items the byYear season s gives to the season before
Moved(s) ==
  IF copy_year \/ s \notin 2..Len(Split) THEN 0
  ELSE IF SplitPoints(s) = {} THEN 0
  ELSE CHOOSE e \in SplitPoints(s) : \A x \in SplitPoints(s) : e <= x

\* C29: with copy-year mode off, for each byYear season after the first the
\* correction moves a prefix to the end of the previous season exactly when
\* there is an index e >= 1 such that the item at e-1 is less than 30 days
\* after the previous season's last item and the item at e is more than
\* 10.5 x 30 days after the item at e-1; the first such e is used, items
\* 0..e-1 are moved, at most one split is applied per season, and the season
\* keeps at least one item. With copy-year mode on nothing is moved.
C29_CorrectionExact ==
  catalog # <<>> =>
    LET years == catalog[1].seasons.years
    IN /\ Len(years) = Len(Split)
       /\ \A s \in DOMAIN years :
            /\ years[s].name = Split[s].name
            /\ Moved(s) < Len(Split[s].episodes)
            /\ years[s].episodes =
                 SubSeq(Split[s].episodes, Moved(s) + 1, Len(Split[s].episodes))
                   \o (IF s < Len(Split)
                       THEN SubSeq(Split[s + 1].episodes, 1, Moved(s + 1)) ELSE <<>>)
       /\ copy_year => years = Split

\* the season of 2020 gave its two January videos to the season of 2019
C29_Witness ==
  /\ catalog # <<>> /\ ~copy_year
  /\ Len(Split) = 2
  /\ Moved(2) = 2
  /\ Len(catalog[1].seasons.years[1].episodes) = Len(Split[1].episodes) + 2
  /\ Len(catalog[1].seasons.years[2].episodes) = 1


\* the byYear seasons after the walk has taken the first n items
Walk(n) == YearSeasons(videos, copy_year, n)

\* C30: in the byYear walk a new season starts exactly when the item's
\* release year differs from the current season's label and either copy-year
\* mode is on or the item's name does not match the current season's label;
\* otherwise the item joins the current season. Hence in copy-year mode every
\* item lies in a season whose name equals its own release year.
C30_YearWalk ==
  catalog # <<>> =>
    /\ \A n \in DOMAIN videos :
         Walk(n - 1) # <<>> =>
           LET current == Walk(n - 1)[Len(Walk(n - 1))]
               item == videos[n]
               year == YearOf(item.publish_date)
               starts == /\ year # current.name
                         /\ copy_year \/ ~Matches(item.name, current.name)
           IN IF starts
              THEN Walk(n) = Append(Walk(n - 1), [ name |-> year, episodes |-> << item >> ])
              ELSE Walk(n) = [ Walk(n - 1) EXCEPT
                                 ![Len(Walk(n - 1))].episodes = Append(current.episodes, item) ]
    /\ copy_year =>
         \A n \in DOMAIN videos :
           \E s \in DOMAIN catalog[1].seasons.years :
             /\ catalog[1].seasons.years[s].name = YearOf(videos[n].publish_date)
             /\ \E e \in DOMAIN catalog[1].seasons.years[s].episodes :
                  catalog[1].seasons.years[s].episodes[e].id = videos[n].id

\* with --copy-year a video of 2020 named "Best of 2019" opens the season of
\* 2020 after a video of 2019
C30_Witness ==
  /\ catalog # <<>> /\ copy_year
  /\ Len(videos) = 3
  /\ videos[1].publish_date = 362
  /\ videos[2].publish_date = 366 /\ videos[2].name = { "2019" }
  /\ Len(catalog[1].seasons.years) = 2
  /\ catalog[1].seasons.years[2].name = "2020"
  /\ catalog[1].seasons.years[2].episodes[1].id = videos[2].id


----------------------------------------------------------------------------
(* Further claims about the cache data, checked under SpecCache *)

\* C31: in every state reachable by put and eviction operations from an
\* empty cache (clock non-decreasing), the call list is ordered by
\* non-decreasing storedAt, including after a put that replaces an existing
\* key.
C31_CallsTimeOrdered ==
  \A i \in DOMAIN data.calls, j \in DOMAIN data.calls :
    i < j => data.calls[i].date <= data.calls[j].date

\* three puts on two keys within the cache duration: the key put first was
\* put again last, and its record is behind the other key's
C31_Witness ==
  /\ puts = 3
  /\ now < firstPut + cache_duration_ms
  /\ Len(data.calls) = 2
  /\ firstPut < data.calls[1].date
  /\ data.calls[1].date < data.calls[2].date


----------------------------------------------------------------------------
(* Further claims about the API client, checked under Spec *)

\* the step in which request r returns the response its first cacheGet found
FirstCheckHit(r) ==
  /\ req[r].pc = "checked1"
  /\ req[r].cachedResponse # <<>>
  /\ req'[r].pc = "returned"

\* C32: a request that is answered from the cache on its first check, before
\* it has acquired the turn, leaves the rate limiter's shared state
\* unchanged: it neither clears the in-flight flag held by another request
\* nor updates the last-call timestamp.
C32_FirstHitLeavesLimiter ==
  [][ (\E r \in Reqs : FirstCheckHit(r)) => UNCHANGED <<calling, last_call>> ]_vars


----------------------------------------------------------------------------
(* Further claims about episode references, checked under SpecAnchor *)

\* C33: every episode reference returned by findEpisode is self-consistent:
\* in the partition named by its seasonType, the season at position
\* seasonNumber contains the resolved video at position seasonEpisodeNumber,
\* and seasonName, seasonCount and seasonEpisodeCount describe that same
\* partition and season (also when the season was found through the byYear
\* or byWork name fallback).
C33_ReferenceSelfConsistent ==
  Identified =>
    LET reference == anchors[1][1].episode
        seasons == catalog[1].seasons[reference.seasonType]
    IN IF reference.seasonNumber \notin DOMAIN seasons THEN FALSE
       ELSE LET season == seasons[reference.seasonNumber]
            IN /\ reference.seasonEpisodeNumber \in DOMAIN season.episodes
               /\ IF reference.seasonEpisodeNumber \in DOMAIN season.episodes
                  THEN season.episodes[reference.seasonEpisodeNumber].id = reference.video.id
                  ELSE FALSE
               /\ reference.seasonName = season.name
               /\ reference.seasonCount = Len(seasons)
               /\ reference.seasonEpisodeCount = Len(season.episodes)


----------------------------------------------------------------------------
(* Further claims about the cache file, checked under SpecFlush *)

\* C34: disk writes of the same cache file never overlap: for every
\* interleaving of puts, debounce timers and flush(), a write of the file
\* begins only after every earlier write of that file has completed, so a
\* slower older write can never finish after a newer one and leave older
\* content on disk.
C34_WritesNeverOverlap == Cardinality(writes) <= 1


\* C35: get and eviction agree on freshness: at every instant, Cache.get
\* returns the stored response of a key exactly when evictData run at that
\* instant would keep the key's entry, an entry stored exactly
\* cache_duration_ms ago included.
C35_GetAgreesWithEviction ==
  \A path \in DOMAIN data.responses :
    (CacheGet(data, path, now) # <<>>)
      <=> (path \in DOMAIN evictData(data, now).responses)


----------------------------------------------------------------------------
(* Further claims about the catalog, checked under SpecCatalog *)

RECURSIVE Concatenated(_, _)
\* the episodes of the first n seasons, one season after the other
Concatenated(seasons, n) ==
  IF n = 0 THEN <<>>
  ELSE Concatenated(seasons, n - 1) \o seasons[n].episodes

\* C36: in every built catalog the byYear seasons, concatenated in season
\* order, are exactly the catalog's time-ordered item sequence: the seasons
\* are contiguous, order-preserving blocks, also after the boundary
\* correction has moved items.
C36_YearsConcatenateToItems ==
  catalog # <<>> =>
    LET years == catalog[1].seasons.years
    IN Concatenated(years, Len(years)) = catalog[1].episodes


----------------------------------------------------------------------------
(* Further claims about anchors, checked under SpecAnchor *)

\* the seasons of the partition, concatenated, are the item sequence
Contiguous(type) ==
  Concatenated(catalog[1].seasons[type], Len(catalog[1].seasons[type]))
    = catalog[1].episodes

\* the anchor leaves the same ids valid as a season anchor and as a flat one
SameIncluded(a) ==
  LET season == [ a EXCEPT !.structure = "season" ]
      flat   == [ a EXCEPT !.structure = "flat" ]
  IN /\ Composable(catalog[1], season) <=> Composable(catalog[1], flat)
     /\ Composable(catalog[1], season) =>
          anchoredIDs(catalog[1], season) = anchoredIDs(catalog[1], flat)

\* C37: for a partition whose seasons, concatenated in order, are the
\* catalog's item sequence, an identified anchor leaves the same ids valid
\* when it is handled as a season anchor and when it is handled as a flat
\* anchor at the same episode with the same direction and inclusivity,
\* exclusive anchors on the first or last episode of a season included.
C37_SeasonAndFlatAgree ==
  (Identified /\ Contiguous(anchors[1][1].episode.seasonType)) =>
    SameIncluded(anchors[1][1])


----------------------------------------------------------------------------
(* Claims about an episode of a named season, checked under SpecEpisode *)

\* the episode number of the command: --episode, else the identifier's
CommandEpisode ==
  LET opts == anchorCommands[1].opts
  IN IF opts.episode # <<>> THEN opts.episode[1] ELSE opts.identifier[1].e[1]

\* the season the command's numeric season reference identifies by index in
\* the requested partition, else by year name; <<>> for none
IdentifiedSeason ==
  LET season == CommandSeason[1]
      seasons == catalog[1].seasons
      requested == anchorCommands[1].seasonType
      byYear == FirstNamed(seasons.years, season)
  IN IF season.number \in DOMAIN seasons[requested]
     THEN << seasons[requested][season.number] >>
     ELSE IF byYear # 0 THEN << seasons.years[byYear] >>
     ELSE <<>>

\* C38: when the season reference of a command identifies a season (by index
\* or by year name) and the requested episode number is greater than that
\* season's length, the resolution fails with a not-found error: it resolves
\* to no episode of another season or partition.
C38_EpisodeBeyondSeasonFails ==
  (anchors # <<>> /\ IdentifiedSeason # <<>>
     /\ CommandEpisode > Len(IdentifiedSeason[1].episodes)) =>
    anchors[1] = <<>>


----------------------------------------------------------------------------
(* Claims about the progress of requests, checked under SpecLive *)

\* C39: with every HTTP call and cache operation terminating, every API
\* request of a finite set of concurrent requests eventually returns or
\* fails: the in-flight flag is released on every exit path, so no waiting
\* request is blocked forever.
C39_EveryRequestSettles ==
  \A r \in Reqs :
    (req[r].pc \in {"checked1", "spin", "delay", "checked2", "http", "stored"})
      ~> (req[r].pc \in {"returned", "failed"})

\* a request that found the flag set and waited has fetched and returned
\* while a later one waits for its turn
C39_Witness ==
  \E r \in Reqs, q \in Reqs :
    /\ req[r].pc = "returned" /\ req[r].fetched /\ q \in req[r].overlap
    /\ req[q].pc = "spin"


----------------------------------------------------------------------------
(* Further claims about the Save Manager, checked under SpecSave *)

\* C40: if the download of a replacement fails after the existing
\* destination file has been backed up, the destination path still holds the
\* previous valid file when the error is reported: a failed replace leaves
\* the destination unchanged.
C40_FailedReplaceKeepsDestination ==
  (save.pc = "thrown" /\ save.backupFilename /\ save.files["backup"] = OldFile) =>
    save.files["filename"] = OldFile

====
